---- MODULE Spec2Model ----
(***************************************************************************)
(* Model of the Muesli job pipeline: the entries table (src/lib/db.ts),    *)
(* the job runner (src/lib/job-runner.ts) and the HTTP handlers that       *)
(* drive it (src/app/api/entries/...).                                     *)
(*                                                                         *)
(* The server is one Node.js process: a handler or a timer callback runs   *)
(* without interruption up to its next await on real I/O (a child process, *)
(* the LLM endpoint, the filesystem, the request body).  Each action below *)
(* is one such uninterrupted segment.  A pipeline execution that is        *)
(* suspended at an await is an element of the bag "runs".                  *)
(***************************************************************************)
EXTENDS Bags, FiniteSets, Integers, Sequences, TLC

VARIABLES
    entries,         \* the entries table: id -> row (ids in creation order)
    runs,            \* bag of suspended pipeline executions
    childProcesses,  \* job-runner.ts childProcesses map: id -> handle
    uploads,         \* bag of audio uploads suspended at their awaits
    runnerActive,    \* job-runner.ts runnerActive (interval installed)
    runnerId,        \* RUNNER_ID of the current process
    keepAudio,       \* settings.keepAudio
    now,             \* wall clock, minutes since day 0 00:00 UTC
    wasReset,        \* history: entries that stuck-job recovery has reset
    prompted,        \* history: entries that have been at awaiting_prompts
    last,            \* output of the last step (HTTP response, signal sent)
    call,            \* the last call of a library function: arguments, result
    disk,            \* the note file in the vault and the writes in progress
    notes            \* the notes that writeNote has put in the vault

vars == <<entries, runs, childProcesses, uploads, runnerActive, runnerId,
          keepAudio, now, wasReset, prompted, last, call, disk, notes>>

(***************************************************************************)
(* Bounds of the model.                                                    *)
(***************************************************************************)
MaxEntries == 1
MaxQueueEntries == 2
MaxRuns == 2
MaxUploads == 1
MaxConcurrentUploads == 2
MaxCrashes == 1
MaxDay == 1
MaxMinuteOfDay == 16

EntryTypes == {"brain-dump", "daily-reflection", "quick-note"}
Texts == {"t1", "t2"}
Durations == {60, 61}
ClockSteps == {6}

(***************************************************************************)
(* Null values of the columns.                                             *)
(***************************************************************************)
NULL == "NULL"
NullTime == <<>>
NullNum == -1
NoRunner == 0

(***************************************************************************)
(* Timestamps.  heartbeat_at, locked_at and raw_transcript_locked_at hold  *)
(* new Date().toISOString(): 'YYYY-MM-DDTHH:MM:SS.sssZ'.  SQLite's         *)
(* datetime() yields 'YYYY-MM-DD HH:MM:SS'.  Both are TEXT and SQLite      *)
(* compares them byte by byte, so a text is modelled by its date, the      *)
(* byte that follows the date, and the time of day.                        *)
(***************************************************************************)
MinutesPerDay == 24 * 60
CharT == 84
CharSpace == 32

toISOString(t) == <<t \div MinutesPerDay, CharT, t % MinutesPerDay>>

datetime(t, minusMinutes) ==
    <<(t - minusMinutes) \div MinutesPerDay, CharSpace,
      (t - minusMinutes) % MinutesPerDay>>

TextLess(a, b) ==
    \E i \in 1..3 : (\A j \in 1..(i - 1) : a[j] = b[j]) /\ a[i] < b[i]

\* The instant a stored ISO text denotes.
InstantOf(iso) == iso[1] * MinutesPerDay + iso[3]

(***************************************************************************)
(* Stages (types JobStage) and progress weights.                           *)
(***************************************************************************)
JobStage == {"pending", "queued", "normalizing", "transcribing",
             "awaiting_review", "awaiting_prompts", "generating", "writing",
             "completed", "failed", "cancel_requested", "cancelled"}

RunningStages == {"normalizing", "transcribing", "generating", "writing"}

TerminalStages == {"completed", "failed", "cancelled"}

\* STAGE_WEIGHTS with the generating stage starting below the awaiting stages.
STAGE_WEIGHTS_GeneratingAt50 ==
    [s \in JobStage |->
        CASE s = "pending" -> [start |-> 0, end |-> 0]
          [] s = "queued" -> [start |-> 0, end |-> 5]
          [] s = "normalizing" -> [start |-> 5, end |-> 15]
          [] s = "transcribing" -> [start |-> 15, end |-> 60]
          [] s = "awaiting_review" -> [start |-> 60, end |-> 60]
          [] s = "awaiting_prompts" -> [start |-> 60, end |-> 60]
          [] s = "generating" -> [start |-> 50, end |-> 90]
          [] s = "writing" -> [start |-> 90, end |-> 100]
          [] s = "completed" -> [start |-> 100, end |-> 100]
          [] OTHER -> [start |-> 0, end |-> 0]]

STAGE_WEIGHTS ==
    [s \in JobStage |->
        CASE s = "pending" -> [start |-> 0, end |-> 0]
          [] s = "queued" -> [start |-> 0, end |-> 5]
          [] s = "normalizing" -> [start |-> 5, end |-> 15]
          [] s = "transcribing" -> [start |-> 15, end |-> 60]
          [] s = "awaiting_review" -> [start |-> 60, end |-> 60]
          [] s = "awaiting_prompts" -> [start |-> 60, end |-> 60]
          [] s = "generating" -> [start |-> 60, end |-> 90]
          [] s = "writing" -> [start |-> 90, end |-> 100]
          [] s = "completed" -> [start |-> 100, end |-> 100]
          [] OTHER -> [start |-> 0, end |-> 0]]

calculateOverallProgress(stage) == STAGE_WEIGHTS[stage].start

getStageMessage(stage) ==
    CASE stage = "normalizing" -> "Converting audio..."
      [] stage = "transcribing" -> "Transcribing audio..."
      [] stage = "generating" -> "Generating journal..."
      [] stage = "writing" -> "Writing note..."
      [] OTHER -> stage

(***************************************************************************)
(* The store (db.ts).                                                      *)
(***************************************************************************)
Ids == DOMAIN entries

\* A calendar date as the text YYYY-MM-DD, one character per element.
Date(day) == <<"2", "0", "2", "4", "-", "0", "1", "-">> \o day

\* The date that POST /api/entries gives a new entry.
Today == Date(<<"0", "1">>)

\* createEntry: the INSERT fills the given columns, the rest take their
\* defaults (stage 'pending', everything else NULL).
NewEntry(entryType) ==
    [entryType |-> entryType,
     entryDate |-> Today,
     stage |-> "pending",
     stageMessage |-> NULL,
     errorMessage |-> NULL,
     lockedBy |-> NoRunner,
     lockedAt |-> NullTime,
     heartbeatAt |-> NullTime,
     originalAudioRelpath |-> NULL,
     normalizedAudioRelpath |-> NULL,
     audioDurationSeconds |-> NullNum,
     rawTranscript |-> NULL,
     rawTranscriptLockedAt |-> NullTime,
     editedTranscript |-> NULL,
     noteRelpath |-> NULL,
     noteMtime |-> NullNum]

\* updateEntry(id, data): UPDATE entries SET <the fields of data> WHERE id.
updateEntry(es, id, data) ==
    [es EXCEPT ![id] =
        [f \in DOMAIN es[id] |->
            IF f \in DOMAIN data THEN data[f] ELSE es[id][f]]]

\* getStuckEntries(staleMinutes): heartbeat_at < datetime('now', '-N minutes')
\* is a comparison of TEXT values, NULL never being less.
getStuckEntries(es, t, staleMinutes) ==
    {id \in DOMAIN es :
        /\ es[id].stage \in RunningStages
        /\ es[id].heartbeatAt # NullTime
        /\ TextLess(es[id].heartbeatAt, datetime(t, staleMinutes))}

\* getQueuedEntries: stage = 'queued' ORDER BY created_at ASC.
getQueuedEntries(es) == {id \in DOMAIN es : es[id].stage = "queued"}

\* queuedJobs[0] under ORDER BY created_at DESC.
Oldest_Newest(S) == CHOOSE id \in S : \A other \in S : id >= other

Oldest(S) == CHOOSE id \in S : \A other \in S : id <= other

(***************************************************************************)
(* Outputs.                                                                *)
(***************************************************************************)
\* The response of an HTTP handler (the route, the entry, the status) with
\* whether the handler sent SIGTERM to a child process; a step that answers
\* no request has status 0.
Out(op, id, status, signal) ==
    [op |-> op, id |-> id, status |-> status, signal |-> signal]

Response(op, id, status) == Out(op, id, status, FALSE)

NoResponse == Out("none", 0, 0, FALSE)

(***************************************************************************)
(* Suspended executions.                                                   *)
(***************************************************************************)
\* aged: the clock of the night specification has moved since the tool,
\* request or file operation that the execution awaits was started.
\* transcript: the constant of that name in continueJobAfterReview and
\* continueJobAfterPrompts, which both hand it on to writeNoteAndComplete.
Run(fn, id, pc) ==
    [fn |-> fn, entry |-> id, pc |-> pc, duration |-> NullNum, then |-> NULL,
     aged |-> FALSE, transcript |-> NULL, entryDate |-> <<>>]

\* const entry = getEntry(entryId) of writeNoteAndComplete: the row that
\* writeNote is given is the one read before the await; entryDate is the
\* date in that row, empty for an execution that has not read it.
Row(r, seg) ==
    IF seg.pc = "writeNote" THEN seg.es[r.entry].entryDate ELSE r.entryDate

\* entry.editedTranscript || entry.rawTranscript || '' for the entry as a
\* continue function reads it when it starts; runJob reads neither.
Transcript(fn, es, id) ==
    IF fn = "runJob" THEN NULL
    ELSE IF es[id].editedTranscript # NULL THEN es[id].editedTranscript
         ELSE IF es[id].rawTranscript # NULL THEN es[id].rawTranscript
              ELSE ""

One(x) == SetToBag({x})

\* The suspended pipeline executions of an entry (a PATCH handler awaiting
\* updateNoteContent is a request in flight, not an execution of the job).
RunsOf(id) == {r \in BagToSet(runs) : r.entry = id /\ r.fn # "PATCH"}

NumRuns == BagCardinality(runs)

NumRunsOf(id) ==
    LET S == RunsOf(id)
        RECURSIVE Sum(_)
        Sum(T) == IF T = {} THEN 0
                  ELSE LET r == CHOOSE x \in T : TRUE
                       IN CopiesIn(r, runs) + Sum(T \ {r})
    IN Sum(S)


(***************************************************************************)
(* The pipeline (job-runner.ts).  An operator below is the code between    *)
(* two awaits: it takes the table and the child-process map and yields     *)
(* them as that code leaves them, with the await at which the execution    *)
(* suspends next ("done" when it has returned).                            *)
(***************************************************************************)
ChunkDuration == 60
StaleMinutes == 5

Seg(es, cp, pc) == [es |-> es, cp |-> cp, pc |-> pc]

isCancelled(es, id) == es[id].stage = "cancel_requested"

\* The catch blocks without the release of the lease.
Fail_KeepsLease(es, cp, id, diag) ==
    Seg(updateEntry(es, id, [stage |-> "failed", errorMessage |-> diag]),
        cp, "done")

\* The catch blocks of processNextJob, continueJobAfterReview and
\* continueJobAfterPrompts.
Fail(es, cp, id, diag) ==
    Seg(updateEntry(es, id, [stage |-> "failed", errorMessage |-> diag,
                             lockedBy |-> NoRunner]),
        cp, "done")

\* finalizeCancellation up to its await, and after it.
FinalizeCancelled(es, cp, id) ==
    Seg(updateEntry(es, id, [stage |-> "cancelled",
                             stageMessage |-> "Cancelled by user",
                             lockedBy |-> NoRunner]),
        cp, "done")

finalizeCancellation(es, cp, id) ==
    IF es[id].normalizedAudioRelpath # NULL
    THEN Seg(es, cp, "finalize.deleteAudioFile")
    ELSE FinalizeCancelled(es, cp, id)

\* checkAndRunStage: the stage update that follows the first check.
BeginStage(es, id, stage) ==
    updateEntry(es, id, [stage |-> stage,
                         stageMessage |-> getStageMessage(stage)])

updateHeartbeat(es, id, t) ==
    updateEntry(es, id, [heartbeatAt |-> toISOString(t)])

\* tryLockJob's update without the heartbeat.
Lease_NoHeartbeat(es, id, t) ==
    updateEntry(es, id, [lockedBy |-> runnerId,
                         lockedAt |-> toISOString(t)])

\* The lease taken by tryLockJob and at the top of both continue functions.
Lease(es, id, t) ==
    updateEntry(es, id, [lockedBy |-> runnerId,
                         lockedAt |-> toISOString(t),
                         heartbeatAt |-> toISOString(t)])

tryLockJob(es, id) ==
    /\ es[id].stage = "queued"
    /\ es[id].lockedBy = NoRunner \/ es[id].lockedBy = runnerId

\* runJob from its start to the await inside normalizeAudio.
StartNormalizing(es, cp, id) ==
    IF isCancelled(es, id) THEN finalizeCancellation(es, cp, id)
    ELSE LET es1 == BeginStage(es, id, "normalizing")
         IN IF es[id].originalAudioRelpath = NULL
            THEN Fail(es1, cp, id, "No audio file uploaded")
            ELSE Seg(es1, cp, "getAudioDuration")

\* runJob: the transcribing stage up to its first await.
StartTranscribing(es, cp, id) ==
    IF isCancelled(es, id) THEN finalizeCancellation(es, cp, id)
    ELSE LET es1 == BeginStage(es, id, "transcribing")
             audioDuration == IF es1[id].audioDurationSeconds = NullNum
                              THEN 0 ELSE es1[id].audioDurationSeconds
         IN IF es1[id].normalizedAudioRelpath = NULL
            THEN Fail(es1, cp, id, "No normalized audio file")
            ELSE IF audioDuration > ChunkDuration
                 THEN Seg(es1, cp, "transcribeChunked")
                 ELSE Seg(es1, cp, "fs.access")

\* runJob after the transcribing stage: park at awaiting_review.
ParkForReview(es, cp, id) ==
    Seg(updateEntry(es, id, [stage |-> "awaiting_review",
                             stageMessage |-> "Waiting for transcript review",
                             lockedBy |-> NoRunner]),
        cp, "done")

\* writeNoteAndComplete up to the await on writeNote.
StartWriting(es, cp, id, t) ==
    IF isCancelled(es, id) THEN finalizeCancellation(es, cp, id)
    ELSE Seg(updateHeartbeat(BeginStage(es, id, "writing"), id, t),
             cp, "writeNote")

Complete(es, cp, id) ==
    Seg(updateEntry(es, id, [stage |-> "completed",
                             stageMessage |-> "Journal entry created",
                             lockedBy |-> NoRunner]),
        cp, "done")

\* writeNoteAndComplete after the writing stage: audio clean-up, completion.
AfterWriting(es, cp, id, keep) ==
    IF ~keep /\ es[id].originalAudioRelpath # NULL
    THEN Seg(es, cp, "deleteOriginal")
    ELSE IF ~keep /\ es[id].normalizedAudioRelpath # NULL
         THEN Seg(es, cp, "deleteNormalized")
         ELSE Complete(es, cp, id)

\* continueJobAfterPrompts from its start to the await on generateJournal.
StartGenerating(es, cp, id, t) ==
    LET es1 == Lease(es, id, t)
    IN IF isCancelled(es1, id) THEN finalizeCancellation(es1, cp, id)
       ELSE Seg(updateHeartbeat(BeginStage(es1, id, "generating"), id, t),
                cp, "generateJournal")

\* continueJobAfterReview without its quick-note shortcut.
ReviewBranch_NoQuickNote(entryType) ==
    CASE entryType = "daily-reflection" -> "prompts"
      [] OTHER -> "generate"

\* What continueJobAfterReview does for each entry type.
ReviewBranch(entryType) ==
    CASE entryType = "quick-note" -> "write"
      [] entryType = "brain-dump" -> "generate"
      [] OTHER -> "prompts"

\* continueJobAfterReview from its start to its first await or its return.
ContinueAfterReview(es, cp, id, t) ==
    LET es1 == Lease(es, id, t)
        branch == ReviewBranch(es[id].entryType)
    IN CASE branch = "write" -> StartWriting(es1, cp, id, t)
         [] branch = "generate" -> StartGenerating(es1, cp, id, t)
         [] OTHER ->
              Seg(updateEntry(es1, id,
                      [stage |-> "awaiting_prompts",
                       stageMessage |-> "Waiting for prompt review",
                       lockedBy |-> NoRunner]),
                  cp, "done")

\* checkAndRunStage after the stage body: the second check.
AfterStage(es, cp, id, next) ==
    IF isCancelled(es, id) THEN finalizeCancellation(es, cp, id) ELSE next


(***************************************************************************)
(* The childProcesses map.                                                 *)
(***************************************************************************)
MapSet(cp, id, proc) ==
    [k \in DOMAIN cp \cup {id} |-> IF k = id THEN proc ELSE cp[k]]

MapDelete(cp, id) == [k \in DOMAIN cp \ {id} |-> cp[k]]

EmptyMap == [k \in {} |-> "ffmpeg"]

\* No library call observed; no vault observed.
NoCall == [fn |-> "none"]

MaxWriters == 2
MaxWrites == 3
MaxMs == 1
FileChunks == 2

\* The vault before any note is written, with no call on it under way.
NoDisk ==
    [ms |-> 0, stamp |-> 0, started |-> 0,
     names |-> [n \in -1..MaxMs |-> 0],
     data |-> [i \in 1..(MaxWriters + 1) |-> <<>>],
     mtime |-> [i \in 1..(MaxWriters + 1) |-> 0],
     writers |-> [w \in 1..MaxWriters |->
                     [pc |-> "idle", temp |-> 0, fd |-> 0, chunks |-> 0]],
     noteRelpath |-> FALSE, noteMtime |-> 0,
     read |-> <<"null">>, check |-> <<"idle">>, hasEdits |-> FALSE,
     external |-> FALSE]

(***************************************************************************)
(* Initial state: a fresh database and a server that has loaded nothing.   *)
(***************************************************************************)
\* The server process is started at time t.
StartedAt(t) ==
    /\ entries = [id \in {} |-> NewEntry("quick-note")]
    /\ runs = EmptyBag
    /\ childProcesses = EmptyMap
    /\ uploads = EmptyBag
    /\ runnerActive = FALSE
    /\ runnerId = 1
    /\ keepAudio = TRUE
    /\ now = t
    /\ wasReset = {}
    /\ prompted = {}
    /\ last = NoResponse
    /\ call = NoCall
    /\ disk = NoDisk
    /\ notes = [id \in {} |-> [entryDate |-> Today]]

Init == StartedAt(10)

(***************************************************************************)
(* The runner tick.                                                        *)
(***************************************************************************)
RECURSIVE ResetStuck(_, _)
ResetStuck(es, stuckJobs) ==
    IF stuckJobs = {} THEN es
    ELSE LET job == CHOOSE id \in stuckJobs : TRUE
         IN ResetStuck(updateEntry(es, job,
                           [stage |-> "queued",
                            lockedBy |-> NoRunner,
                            lockedAt |-> NullTime,
                            stageMessage |-> "Reset after timeout"]),
                       stuckJobs \ {job})

\* A suspended execution is added when the segment ended at an await.
Suspend(fn, id, seg) ==
    /\ seg.pc # "done" => NumRuns < MaxRuns
    /\ entries' = seg.es
    /\ childProcesses' = seg.cp
    /\ runs' = IF seg.pc = "done" THEN runs
               ELSE runs (+) One([Run(fn, id, seg.pc) EXCEPT
                                     !.transcript =
                                         Transcript(fn, seg.es, id),
                                     !.entryDate =
                                         Row(Run(fn, id, seg.pc), seg)])

\* processNextJob up to the first await of the run it starts.
processNextJob ==
    LET stuckJobs == getStuckEntries(entries, now, StaleMinutes)
        es1 == ResetStuck(entries, stuckJobs)
        queuedJobs == getQueuedEntries(es1)
    IN /\ wasReset' = wasReset \cup stuckJobs
       /\ IF queuedJobs = {}
          THEN entries' = es1 /\ UNCHANGED <<runs, childProcesses>>
          ELSE LET job == Oldest(queuedJobs)
               IN IF ~tryLockJob(es1, job)
                  THEN entries' = es1 /\ UNCHANGED <<runs, childProcesses>>
                  ELSE Suspend("runJob", job,
                           StartNormalizing(Lease(es1, job, now),
                                            childProcesses, job))

\* The setInterval callback of startRunner.
Tick ==
    /\ runnerActive
    /\ processNextJob
    /\ last' = NoResponse
    /\ UNCHANGED <<uploads, runnerActive, runnerId, keepAudio, now, prompted,
                   call, disk, notes>>

\* The first request to /api/entries loads the route module, which calls
\* startRunner: the initial processNextJob and the interval.
StartRunner ==
    /\ ~runnerActive
    /\ runnerActive' = TRUE
    /\ processNextJob
    /\ last' = NoResponse
    /\ UNCHANGED <<uploads, runnerId, keepAudio, now, prompted, call, disk,
                   notes>>

(***************************************************************************)
(* Resumption of a suspended execution.                                    *)
(***************************************************************************)
Resumed(r, seg) ==
    /\ entries' = seg.es
    /\ childProcesses' = seg.cp
    /\ runs' = IF seg.pc = "done" THEN runs (-) One(r)
               ELSE (runs (-) One(r))
                    (+) One([r EXCEPT !.pc = seg.pc,
                                      !.aged = r.aged /\ seg.pc = "whisper",
                                      !.entryDate = Row(r, seg)])
    /\ last' = NoResponse
    /\ UNCHANGED <<uploads, runnerActive, runnerId, keepAudio, now, wasReset,
                   prompted, call, disk>>

\* The same for an execution that has written nothing to the vault.
Resume(r, seg) == Resumed(r, seg) /\ UNCHANGED notes


At(pc) == {r \in BagToSet(runs) : r.pc = pc}

\* normalizeAudio: ffprobe has exited; on success ffmpeg is spawned and
\* onProcess records its handle.
ProbeDone ==
    \E r \in At("getAudioDuration"), ok \in BOOLEAN, d \in Durations :
        IF ok
        THEN /\ entries' = entries
             /\ childProcesses' = MapSet(childProcesses, r.entry, "ffmpeg")
             /\ runs' = (runs (-) One(r))
                        (+) One([r EXCEPT !.pc = "ffmpeg", !.duration = d])
             /\ last' = NoResponse
             /\ UNCHANGED <<uploads, runnerActive, runnerId, keepAudio, now,
                            wasReset, prompted, call, disk, notes>>
        ELSE Resume(r, Fail(entries, childProcesses, r.entry,
                            "ffprobe failed"))

\* normalizeAudio: ffmpeg has exited; rest of the normalizing stage and the
\* start of the transcribing stage.
FfmpegDone ==
    \E r \in At("ffmpeg"), ok \in BOOLEAN :
        IF ok
        THEN LET cp1 == MapDelete(childProcesses, r.entry)
                 es1 == updateEntry(entries, r.entry,
                            [normalizedAudioRelpath |-> "normalized.wav",
                             audioDurationSeconds |-> r.duration])
             IN Resume(r, AfterStage(es1, cp1, r.entry,
                              StartTranscribing(es1, cp1, r.entry)))
        ELSE Resume(r, Fail(entries, childProcesses, r.entry,
                            "ffmpeg failed"))

\* transcribe: the binary and the model were found; whisper is spawned and
\* onProcess records its handle.
AccessDone ==
    \E r \in At("fs.access"), ok \in BOOLEAN :
        IF ok
        THEN Resume(r, Seg(entries,
                           MapSet(childProcesses, r.entry, "whisper"),
                           "whisper"))
        ELSE Resume(r, Fail(entries, childProcesses, r.entry,
                            "Whisper binary not found"))

\* The transcribing stage after transcribe or transcribeChunked returned.
Transcribed(r, text) ==
    LET cp1 == MapDelete(childProcesses, r.entry)
        es1 == updateEntry(entries, r.entry,
                   [rawTranscript |-> text,
                    rawTranscriptLockedAt |-> toISOString(now)])
    IN AfterStage(es1, cp1, r.entry, ParkForReview(es1, cp1, r.entry))

WhisperDone ==
    \E r \in At("whisper"), ok \in BOOLEAN, text \in Texts :
        IF ok THEN Resume(r, Transcribed(r, text))
        ELSE Resume(r, Fail(entries, childProcesses, r.entry,
                            "whisper.cpp failed"))

\* transcribeChunked passes no onProcess on: none of its children is in
\* the map.
ChunkedDone ==
    \E r \in At("transcribeChunked"), ok \in BOOLEAN, text \in Texts :
        IF ok THEN Resume(r, Transcribed(r, text))
        ELSE Resume(r, Fail(entries, childProcesses, r.entry,
                            "whisper.cpp failed"))

\* continueJobAfterPrompts after generateJournal returned.
GenerateDone ==
    \E r \in At("generateJournal"), ok \in BOOLEAN :
        IF ok
        THEN Resume(r, AfterStage(entries, childProcesses, r.entry,
                           StartWriting(entries, childProcesses, r.entry,
                                        now)))
        ELSE Resume(r, Fail(entries, childProcesses, r.entry,
                            "Ollama request failed"))

\* stat.mtimeMs of a note file.  The specifications of the pipeline know
\* one value of it; the specification of the vault follows its changes.
mtimeMs == 1

\* RecordNote without the mtime.
RecordNote_PathOnly(es, id, mtime) ==
    updateEntry(es, id, [noteRelpath |-> "journal/note.md"])

\* updateEntry(entryId, {noteRelpath: result.relpath, noteMtime:
\* result.mtime}) for a note whose file was last modified at time mtime.
RecordNote(es, id, mtime) ==
    updateEntry(es, id, [noteRelpath |-> "journal/note.md",
                         noteMtime |-> mtime])

\* The file that writeNote(entry, ...) puts at the path of the entry: of
\* its text, the entry_date line of the frontmatter.
writeNote(ns, id, entryDate) ==
    [k \in DOMAIN ns \cup {id} |->
        IF k = id THEN [entryDate |-> entryDate] ELSE ns[k]]

\* writeNoteAndComplete after writeNote returned.
WriteDone ==
    \E r \in At("writeNote"), ok \in BOOLEAN :
        IF ok
        THEN LET es1 == RecordNote(entries, r.entry, mtimeMs)
             IN /\ Resumed(r, AfterStage(es1, childProcesses, r.entry,
                               AfterWriting(es1, childProcesses, r.entry,
                                            keepAudio)))
                /\ notes' = writeNote(notes, r.entry, r.entryDate)
        ELSE Resume(r, Fail(entries, childProcesses, r.entry,
                            "write failed"))

DeleteOriginalDone ==
    \E r \in At("deleteOriginal"), ok \in BOOLEAN :
        IF ok
        THEN IF entries[r.entry].normalizedAudioRelpath # NULL
             THEN Resume(r, Seg(entries, childProcesses, "deleteNormalized"))
             ELSE Resume(r, Complete(entries, childProcesses, r.entry))
        ELSE Resume(r, Fail(entries, childProcesses, r.entry,
                            "unlink failed"))

DeleteNormalizedDone ==
    \E r \in At("deleteNormalized"), ok \in BOOLEAN :
        IF ok THEN Resume(r, Complete(entries, childProcesses, r.entry))
        ELSE Resume(r, Fail(entries, childProcesses, r.entry,
                            "unlink failed"))

\* finalizeCancellation after deleteAudioFile returned.
FinalizeDeleteDone ==
    \E r \in At("finalize.deleteAudioFile"), ok \in BOOLEAN :
        IF ok
        THEN Resume(r, FinalizeCancelled(entries, childProcesses, r.entry))
        ELSE Resume(r, Fail(entries, childProcesses, r.entry,
                            "unlink failed"))


(***************************************************************************)
(* HTTP handlers, for requests that name an existing entry.  The response  *)
(* is recorded in "last" under the specifications that observe responses.  *)
(***************************************************************************)
Respond(observe, out) == last' = IF observe THEN out ELSE NoResponse

Files == {"journal/audio/original.webm"}

\* The relpath has the extension of the uploaded file's name.
AudioFiles == Files \cup {"journal/audio/original.m4a"}

\* POST /api/entries
CreateEntry(capacity, observe) ==
    \E entryType \in EntryTypes :
        /\ runnerActive
        /\ Cardinality(Ids) < capacity
        /\ LET id == Cardinality(Ids) + 1
           IN /\ entries' = [k \in Ids \cup {id} |->
                                IF k = id THEN NewEntry(entryType)
                                ELSE entries[k]]
              /\ Respond(observe, Response("create", id, 200))
        /\ UNCHANGED <<runs, childProcesses, uploads, runnerActive, runnerId,
                       keepAudio, now, wasReset, prompted, call, disk, notes>>

(***************************************************************************)
(* MIME types of uploaded files, as sequences of characters.               *)
(***************************************************************************)
\* String.prototype.startsWith
startsWith(str, prefix) ==
    /\ Len(prefix) <= Len(str)
    /\ SubSeq(str, 1, Len(prefix)) = prefix

\* str.split('/')[0]: the text before the first '/', the whole text when
\* there is none.
RECURSIVE splitFirst(_)
splitFirst(str) ==
    IF str = <<>> \/ Head(str) = "/" THEN <<>>
    ELSE <<Head(str)>> \o splitFirst(Tail(str))

allowedTypes ==
    <<<<"a", "u", "d", "i", "o", "/", "w", "e", "b", "m">>,
      <<"a", "u", "d", "i", "o", "/", "m", "p", "3">>,
      <<"a", "u", "d", "i", "o", "/", "m", "p", "e", "g">>,
      <<"a", "u", "d", "i", "o", "/", "m", "p", "4">>,
      <<"a", "u", "d", "i", "o", "/", "m", "4", "a">>,
      <<"a", "u", "d", "i", "o", "/", "x", "-", "m", "4", "a">>,
      <<"a", "u", "d", "i", "o", "/", "w", "a", "v">>,
      <<"a", "u", "d", "i", "o", "/", "w", "a", "v", "e">>,
      <<"a", "u", "d", "i", "o", "/", "o", "g", "g">>,
      <<"a", "u", "d", "i", "o", "/", "f", "l", "a", "c">>>>

\* The types a client sends: listed ones, an unlisted audio type, types of
\* other families, types that begin with 'audio' but not with 'audio/',
\* and the empty type of a file of unknown kind.
MimeTypes ==
    {<<"a", "u", "d", "i", "o", "/", "w", "e", "b", "m">>,
     <<"a", "u", "d", "i", "o", "/", "w", "a", "v">>,
     <<"a", "u", "d", "i", "o", "/", "a", "a", "c">>,
     <<"v", "i", "d", "e", "o", "/", "m", "p", "4">>,
     <<"t", "e", "x", "t", "/", "p", "l", "a", "i", "n">>,
     <<"a", "u", "d", "i", "o", "x", "/", "r", "a", "w">>,
     <<"a", "u", "d", "i", "o">>,
     <<>>}

\* The file type validation that lets the upload go on.
validType(type) ==
    \/ \E i \in 1..Len(allowedTypes) :
          startsWith(type, splitFirst(allowedTypes[i]))
    \/ startsWith(type, <<"a", "u", "d", "i", "o", "/">>)

\* POST /api/entries/:id/audio up to the await on the file's bytes.
UploadRequest(id, type, file, observe) ==
    /\ IF entries[id].stage # "pending" \/ ~validType(type)
       THEN /\ Respond(observe, Response("upload", id, 400))
            /\ uploads' = uploads
       ELSE /\ uploads' = uploads (+) One([entry |-> id, file |-> file])
            /\ last' = NoResponse
    /\ UNCHANGED <<entries, runs, childProcesses, runnerActive, runnerId,
                   keepAudio, now, wasReset, prompted, call, disk, notes>>

\* At most capacity uploads are in progress at a time.
UploadBegin(files, capacity, observe) ==
    \E id \in Ids, type \in MimeTypes, file \in files :
        /\ (entries[id].stage = "pending" /\ validType(type))
           => BagCardinality(uploads) < capacity
        /\ UploadRequest(id, type, file, observe)

\* queueEntry; it throws when the stage is not pending.
queueEntry(es, id) ==
    updateEntry(es, id, [stage |-> "queued",
                         stageMessage |-> "Queued for processing"])

\* POST /api/entries/:id/audio after the file was written to disk.
UploadFinish(observe) ==
    \E u \in BagToSet(uploads), ok \in BOOLEAN :
        /\ uploads' = uploads (-) One(u)
        /\ IF ~ok
           THEN /\ entries' = entries
                /\ Respond(observe, Response("upload", u.entry, 500))
           ELSE LET es1 == updateEntry(entries, u.entry,
                               [originalAudioRelpath |-> u.file])
                IN IF es1[u.entry].stage # "pending"
                   THEN /\ entries' = es1
                        /\ Respond(observe,
                                   Response("upload", u.entry, 500))
                   ELSE /\ entries' = queueEntry(es1, u.entry)
                        /\ Respond(observe,
                                   Response("upload", u.entry, 200))
        /\ UNCHANGED <<runs, childProcesses, runnerActive, runnerId,
                       keepAudio, now, wasReset, prompted, call, disk, notes>>

\* cancellableStages with a stage in which no execution is in progress.
cancellableStages_WithReview ==
    {"queued", "normalizing", "transcribing", "generating", "writing",
     "awaiting_review"}

cancellableStages ==
    {"queued", "normalizing", "transcribing", "generating", "writing"}

\* POST /api/entries/:id/cancel for entry id, with requestCancel.
CancelEntry(id, observe) ==
    /\ IF entries[id].stage \notin cancellableStages
       THEN /\ Respond(observe, Response("cancel", id, 400))
            /\ UNCHANGED <<entries, childProcesses>>
       ELSE /\ entries' = updateEntry(entries, id,
                   [stage |-> "cancel_requested",
                    stageMessage |-> "Cancellation requested"])
            /\ childProcesses' = MapDelete(childProcesses, id)
            /\ Respond(observe,
                       Out("cancel", id, 200, id \in DOMAIN childProcesses))
    /\ UNCHANGED <<runs, uploads, runnerActive, runnerId, keepAudio, now,
                   wasReset, prompted, call, disk, notes>>

Cancel(observe) == \E id \in Ids : CancelEntry(id, observe)

\* PATCH /api/entries/:id with editedTranscript, entryDate, editedSections
\* and/or action 'continue'.
Edits == {NULL, "edit"}

\* /^\d{4}-\d{2}-\d{2}$/.test(str)
matchesDate(str) ==
    /\ Len(str) = 10
    /\ \A i \in 1..10 :
           IF i \in {5, 8} THEN str[i] = "-"
           ELSE str[i] \in {"0", "1", "2", "3", "4", "5", "6", "7", "8", "9"}

\* The entryDate of a request body: none (written as the empty text, which
\* the handler treats alike), another day, a day of one digit.
EntryDates == {<<>>, Date(<<"0", "2">>), Date(<<"2">>)}

\* ContinueWith without the test of the stage.
ContinueWith_AnyStage(continue, stage) ==
    IF continue /\ stage = "awaiting_prompts" THEN "continueJobAfterPrompts"
    ELSE IF continue THEN "continueJobAfterReview"
         ELSE NULL

\* What the handler calls for action 'continue', from the stage of the
\* entry as it read it at the start of the request.
ContinueWith(continue, stage) ==
    IF continue /\ stage = "awaiting_review" THEN "continueJobAfterReview"
    ELSE IF continue /\ stage = "awaiting_prompts"
         THEN "continueJobAfterPrompts"
         ELSE NULL

\* The end of the handler: the continuation up to its first await.
PatchContinue(es, id, fn) ==
    IF fn = "continueJobAfterReview"
    THEN ContinueAfterReview(es, childProcesses, id, now)
    ELSE IF fn = "continueJobAfterPrompts"
         THEN StartGenerating(es, childProcesses, id, now)
         ELSE Seg(es, childProcesses, "done")

\* The handler up to the await on updateNoteContent, or to its end when
\* there are no section edits or the entry has no note.
\* The history of visits to awaiting_prompts follows the table.
Prompted ==
    prompted' = prompted \cup {k \in DOMAIN entries' :
                                  entries'[k].stage = "awaiting_prompts"}

PatchEntry(id, edit, entryDate, sections, continue, observe) ==
    LET es0 == IF edit = NULL THEN entries
               ELSE updateEntry(entries, id, [editedTranscript |-> edit])
        es1 == IF matchesDate(entryDate)
               THEN updateEntry(es0, id, [entryDate |-> entryDate])
               ELSE es0
        fn == ContinueWith(continue, entries[id].stage)
    IN /\ IF sections /\ entries[id].noteRelpath # NULL
          THEN /\ NumRuns < MaxRuns
               /\ entries' = es1
               /\ runs' = runs (+) One([Run("PATCH", id, "updateNoteContent")
                                          EXCEPT !.then = fn])
               /\ childProcesses' = childProcesses
               /\ last' = NoResponse
          ELSE /\ Suspend(fn, id, PatchContinue(es1, id, fn))
               /\ Respond(observe, Response("patch", id, 200))
       /\ Prompted
       /\ UNCHANGED <<uploads, runnerActive, runnerId, keepAudio, now,
                      wasReset, call, disk, notes>>

Patch(edits, dates, observe) ==
    \E id \in Ids, edit \in edits, entryDate \in dates,
       sections \in BOOLEAN, continue \in BOOLEAN :
        PatchEntry(id, edit, entryDate, sections, continue, observe)

\* The handler after updateNoteContent returned or threw.
PatchDone(observe) ==
    \E r \in At("updateNoteContent"), ok \in BOOLEAN :
        /\ IF ok
           THEN LET es1 == updateEntry(entries, r.entry,
                                       [noteMtime |-> mtimeMs])
                    seg == PatchContinue(es1, r.entry, r.then)
                IN /\ entries' = seg.es
                   /\ childProcesses' = seg.cp
                   /\ runs' = IF seg.pc = "done" THEN runs (-) One(r)
                              ELSE (runs (-) One(r))
                                   (+) One([Run(r.then, r.entry, seg.pc)
                                               EXCEPT !.transcript =
                                                   Transcript(r.then, seg.es,
                                                              r.entry),
                                                      !.entryDate =
                                                   Row(r, seg)])
                   /\ Respond(observe, Response("patch", r.entry, 200))
           ELSE /\ runs' = runs (-) One(r)
                /\ UNCHANGED <<entries, childProcesses>>
                /\ Respond(observe, Response("patch", r.entry, 500))
        /\ Prompted
        /\ UNCHANGED <<uploads, runnerActive, runnerId, keepAudio, now,
                       wasReset, call, disk, notes>>

\* PATCH /api/settings changing keep_audio.
SetKeepAudio(observe) ==
    /\ keepAudio' = ~keepAudio
    /\ Respond(observe, Response("settings", 0, 200))
    /\ UNCHANGED <<entries, runs, childProcesses, uploads, runnerActive,
                   runnerId, now, wasReset, prompted, call, disk, notes>>

(***************************************************************************)
(* The environment: time passes; the server process dies and is started    *)
(* again (a new RUNNER_ID, no suspended executions, an empty map).         *)
(***************************************************************************)
AdvanceClock ==
    \E d \in ClockSteps :
        /\ (now % MinutesPerDay) + d <= MaxMinuteOfDay
        /\ now' = now + d
        /\ last' = NoResponse
        /\ UNCHANGED <<entries, runs, childProcesses, uploads, runnerActive,
                       runnerId, keepAudio, wasReset, prompted, call, disk,
                       notes>>

NextDay ==
    /\ now \div MinutesPerDay < MaxDay
    /\ now' = now + MinutesPerDay
    /\ last' = NoResponse
    /\ UNCHANGED <<entries, runs, childProcesses, uploads, runnerActive,
                   runnerId, keepAudio, wasReset, prompted, call, disk,
                   notes>>

Crash ==
    /\ runnerId <= MaxCrashes
    /\ runs' = EmptyBag
    /\ uploads' = EmptyBag
    /\ childProcesses' = EmptyMap
    /\ runnerActive' = FALSE
    /\ runnerId' = runnerId + 1
    /\ last' = NoResponse
    /\ UNCHANGED <<entries, keepAudio, now, wasReset, prompted, call, disk,
                   notes>>

\* A suspended execution resumes.
RunStep ==
    \/ ProbeDone
    \/ FfmpegDone
    \/ AccessDone
    \/ WhisperDone
    \/ ChunkedDone
    \/ GenerateDone
    \/ WriteDone
    \/ DeleteOriginalDone
    \/ DeleteNormalizedDone
    \/ FinalizeDeleteDone

(***************************************************************************)
(* Spec: one entry, with the clock, stuck-job recovery and restarts, and   *)
(* PATCH requests that edit sections or continue the job.                  *)
(***************************************************************************)
Next ==
    \/ StartRunner
    \/ Tick
    \/ RunStep
    \/ CreateEntry(MaxEntries, FALSE)
    \/ UploadBegin(Files, MaxUploads, FALSE)
    \/ UploadFinish(FALSE)
    \/ Cancel(FALSE)
    \/ Patch({NULL}, {<<>>}, FALSE)
    \/ PatchDone(FALSE)
    \/ SetKeepAudio(FALSE)
    \/ AdvanceClock
    \/ NextDay
    \/ Crash

Spec == Init /\ [][Next]_vars

(***************************************************************************)
(* SpecHttp: one entry, the responses observed, over a span in which the   *)
(* clock does not leave its minute and the process stays up.               *)
(***************************************************************************)
NextHttp ==
    \/ StartRunner
    \/ Tick
    \/ RunStep
    \/ CreateEntry(MaxEntries, TRUE)
    \/ UploadBegin(Files, MaxUploads, TRUE)
    \/ UploadFinish(TRUE)
    \/ Cancel(TRUE)
    \/ Patch(Edits, {<<>>}, TRUE)
    \/ PatchDone(TRUE)
    \/ SetKeepAudio(TRUE)

SpecHttp == Init /\ [][NextHttp]_vars

(***************************************************************************)
(* SpecQueue: several entries in the queue, over such a span, with PATCH   *)
(* requests that continue the job without editing a field.                 *)
(***************************************************************************)
NextQueue ==
    \/ StartRunner
    \/ Tick
    \/ RunStep
    \/ CreateEntry(MaxQueueEntries, FALSE)
    \/ UploadBegin(Files, MaxUploads, FALSE)
    \/ UploadFinish(FALSE)
    \/ Cancel(FALSE)
    \/ Patch({NULL}, {<<>>}, FALSE)
    \/ PatchDone(FALSE)
    \/ SetKeepAudio(FALSE)

SpecQueue == Init /\ [][NextQueue]_vars


(***************************************************************************)
(* SpecFair: SpecHttp's steps without the responses, where the interval    *)
(* keeps firing and every awaited tool, request and file operation ends.   *)
(***************************************************************************)
NextFair ==
    \/ StartRunner
    \/ Tick
    \/ RunStep
    \/ CreateEntry(MaxEntries, FALSE)
    \/ UploadBegin(Files, MaxUploads, FALSE)
    \/ UploadFinish(FALSE)
    \/ Cancel(FALSE)
    \/ Patch(Edits, {<<>>}, FALSE)
    \/ PatchDone(FALSE)
    \/ SetKeepAudio(FALSE)

Fairness ==
    /\ WF_vars(StartRunner)
    /\ WF_vars(Tick)
    /\ WF_vars(ProbeDone)
    /\ WF_vars(FfmpegDone)
    /\ WF_vars(AccessDone)
    /\ WF_vars(WhisperDone)
    /\ WF_vars(ChunkedDone)
    /\ WF_vars(GenerateDone)
    /\ WF_vars(WriteDone)
    /\ WF_vars(DeleteOriginalDone)
    /\ WF_vars(DeleteNormalizedDone)
    /\ WF_vars(FinalizeDeleteDone)
    /\ WF_vars(UploadFinish(FALSE))
    /\ WF_vars(PatchDone(FALSE))

SpecFair == Init /\ [][NextFair]_vars /\ Fairness


(***************************************************************************)
(* SpecLease: several entries in the queue, where the process may die      *)
(* inside processNextJob between the UPDATE of tryLockJob and the UPDATE   *)
(* that advances the stage, and is started again with a new RUNNER_ID.     *)
(* The interval keeps firing and every awaited operation ends; no request  *)
(* continues a job past its review, so a run ends at that pause.           *)
(***************************************************************************)
\* The process dies after tryLockJob has written the lease: the row keeps
\* the lease of a runner that no longer exists.
CrashInLease ==
    LET stuckJobs == getStuckEntries(entries, now, StaleMinutes)
        es1 == ResetStuck(entries, stuckJobs)
        queuedJobs == getQueuedEntries(es1)
    IN /\ runnerActive
       /\ runnerId <= MaxCrashes
       /\ queuedJobs # {}
       /\ tryLockJob(es1, Oldest(queuedJobs))
       /\ entries' = Lease(es1, Oldest(queuedJobs), now)
       /\ wasReset' = wasReset \cup stuckJobs
       /\ runs' = EmptyBag
       /\ uploads' = EmptyBag
       /\ childProcesses' = EmptyMap
       /\ runnerActive' = FALSE
       /\ runnerId' = runnerId + 1
       /\ last' = NoResponse
       /\ UNCHANGED <<keepAudio, now, prompted, call, disk, notes>>

NextLease ==
    \/ StartRunner
    \/ Tick
    \/ ProbeDone
    \/ FfmpegDone
    \/ AccessDone
    \/ WhisperDone
    \/ ChunkedDone
    \/ FinalizeDeleteDone
    \/ CreateEntry(MaxQueueEntries, FALSE)
    \/ UploadBegin(Files, MaxUploads, FALSE)
    \/ UploadFinish(FALSE)
    \/ Cancel(FALSE)
    \/ CrashInLease

SpecLease == Init /\ [][NextLease]_vars /\ Fairness

(***************************************************************************)
(* SpecNight: one entry around midnight UTC, where no tool, request or     *)
(* file operation takes as long as the stuck-job threshold: the clock      *)
(* moves by less than the threshold at a time, and only when every awaited *)
(* operation was started after it last moved.                              *)
(***************************************************************************)
NightStep == 4

Pass ==
    /\ NightStep < StaleMinutes
    /\ now + NightStep <= MinutesPerDay + MaxMinuteOfDay
    /\ \A r \in BagToSet(runs) : ~r.aged
    /\ now' = now + NightStep
    /\ runs' = LET Aged(r) == [r EXCEPT !.aged = TRUE]
               IN BagOfAll(Aged, runs)
    /\ last' = NoResponse
    /\ UNCHANGED <<entries, childProcesses, uploads, runnerActive, runnerId,
                   keepAudio, wasReset, prompted, call, disk, notes>>

NextNight ==
    \/ StartRunner
    \/ Tick
    \/ RunStep
    \/ CreateEntry(MaxEntries, FALSE)
    \/ UploadBegin(Files, MaxUploads, FALSE)
    \/ UploadFinish(FALSE)
    \/ Cancel(FALSE)
    \/ Patch({NULL}, {<<>>}, FALSE)
    \/ PatchDone(FALSE)
    \/ SetKeepAudio(FALSE)
    \/ Pass

SpecNight == StartedAt(MinutesPerDay - 3) /\ [][NextNight]_vars

(***************************************************************************)
(* The pipeline of one entry whose date is edited while it runs.           *)
(***************************************************************************)
NextDates ==
    \/ StartRunner
    \/ Tick
    \/ RunStep
    \/ CreateEntry(MaxEntries, FALSE)
    \/ UploadBegin(Files, MaxUploads, FALSE)
    \/ UploadFinish(FALSE)
    \/ Cancel(FALSE)
    \/ Patch({NULL}, EntryDates, FALSE)
    \/ PatchDone(FALSE)
    \/ SetKeepAudio(FALSE)

SpecDates == Init /\ [][NextDates]_vars

(***************************************************************************)
(* The pipeline of one entry with uploads of files of two extensions.      *)
(***************************************************************************)
NextUploads ==
    \/ StartRunner
    \/ Tick
    \/ RunStep
    \/ CreateEntry(MaxEntries, TRUE)
    \/ UploadBegin(AudioFiles, MaxConcurrentUploads, TRUE)
    \/ UploadFinish(TRUE)
    \/ Cancel(TRUE)
    \/ Patch({NULL}, {<<>>}, TRUE)
    \/ PatchDone(TRUE)
    \/ SetKeepAudio(TRUE)

SpecUploads == Init /\ [][NextUploads]_vars

(***************************************************************************)
(* Markdown text (lib/markdown, services/vault.ts).  A text is a sequence  *)
(* of atoms: a newline, a START marker comment with its section name and   *)
(* flags, an END marker comment with its section name, or a piece of other *)
(* text that holds no newline and no marker.  Offsets count atoms from 0,  *)
(* as the code counts characters.                                          *)
(***************************************************************************)
Atom(k, name, flags) == [k |-> k, name |-> name, flags |-> flags]

NL == Atom("nl", "", <<>>)

Text(v) == Atom("text", v, <<>>)

\* '<!-- WHISPER_JOURNAL:name:START flags -->'
StartMarker(name, flags) == Atom("start", name, flags)

\* '<!-- WHISPER_JOURNAL:name:END -->'
EndMarker(name) == Atom("end", name, <<>>)

\* String.prototype.slice(from, to) with 0 <= from, to <= length.
slice(str, from, to) == IF from >= to THEN <<>> ELSE SubSeq(str, from + 1, to)

\* The least offset of a set of offsets, -1 when there is none: where a
\* search or a pattern finds its first match.
First(offsets) ==
    IF offsets = {} THEN -1
    ELSE CHOOSE i \in offsets : \A j \in offsets : i <= j

\* String.prototype.indexOf for a marker or a newline, from an offset on.
indexOf(str, atom, from) ==
    First({i \in from..(Len(str) - 1) : str[i + 1] = atom})

\* String.prototype.trim: white space here is the newline.
RECURSIVE trim(_)
trim(str) ==
    IF str = <<>> THEN str
    ELSE IF Head(str) = NL THEN trim(Tail(str))
         ELSE IF str[Len(str)] = NL THEN trim(SubSeq(str, 1, Len(str) - 1))
              ELSE str

\* Array.prototype.join(separator)
RECURSIVE join(_, _)
join(parts, separator) ==
    IF parts = <<>> THEN <<>>
    ELSE IF Len(parts) = 1 THEN parts[1]
         ELSE parts[1] \o <<separator>> \o join(Tail(parts), separator)

\* The body of the loop of parseSections for the line from offset charIndex
\* to offset lineEnd.  st holds sections, errors and openSections (in
\* insertion order).  The line is matched against the START pattern and
\* then against the END pattern; each finds the first such marker of the
\* line.
ParseLine(markdown, charIndex, lineEnd, lineNum, st) ==
    LET line == charIndex..(lineEnd - 1)
        s == First({i \in line : markdown[i + 1].k = "start"})
        e == First({i \in line : markdown[i + 1].k = "end"})
        Has(open, name) == \E i \in 1..Len(open) : open[i].name = name
        Error(type, name) ==
            [type |-> type, section |-> name, line |-> lineNum + 1]
        st1 ==
            IF s = -1 THEN st
            ELSE LET m == markdown[s + 1]
                 IN IF Has(st.open, m.name)
                    THEN [st EXCEPT !.errors =
                             Append(@, Error("invalid_nesting", m.name))]
                    ELSE [st EXCEPT !.open =
                             Append(@, [name |-> m.name,
                                        startIndex |-> charIndex,
                                        startLine |-> lineNum + 1,
                                        flags |-> m.flags,
                                        contentStart |-> lineEnd + 1])]
    IN IF e = -1 THEN st1
       ELSE LET m == markdown[e + 1]
            IN IF ~Has(st1.open, m.name)
               THEN [st1 EXCEPT !.errors =
                        Append(@, Error("missing_start", m.name))]
               ELSE LET start ==
                            st1.open[CHOOSE i \in 1..Len(st1.open) :
                                         st1.open[i].name = m.name]
                    IN [st1 EXCEPT
                          !.sections =
                              Append(@,
                                [name |-> m.name,
                                 content |->
                                     trim(slice(markdown,
                                                start.contentStart,
                                                charIndex)),
                                 flags |-> start.flags,
                                 startIndex |-> start.startIndex,
                                 endIndex |-> lineEnd,
                                 startLine |-> start.startLine,
                                 endLine |-> lineNum + 1]),
                          !.open =
                              SelectSeq(@, LAMBDA o : o.name # m.name)]

\* The loop of parseSections from the line that starts at offset charIndex,
\* and the missing_end errors for what is open after the last line.  The
\* state after a line is a value (next) before the loop goes on with it.
RECURSIVE ParseLines(_, _, _, _)
ParseLines(markdown, charIndex, lineNum, st) ==
    LET nl == indexOf(markdown, NL, charIndex)
        lineEnd == IF nl = -1 THEN Len(markdown) ELSE nl
        Rest(next) ==
            IF nl # -1
            THEN ParseLines(markdown, nl + 1, lineNum + 1, next)
            ELSE [sections |-> next.sections,
                  errors |->
                      next.errors
                      \o [i \in 1..Len(next.open) |->
                             [type |-> "missing_end",
                              section |-> next.open[i].name,
                              line |-> next.open[i].startLine]]]
    IN CHOOSE result \in
           {Rest(next) :
               next \in {ParseLine(markdown, charIndex, lineEnd, lineNum,
                                   st)}} : TRUE

parseSections(markdown) ==
    ParseLines(markdown, 0, 0,
               [sections |-> <<>>, errors |-> <<>>, open |-> <<>>])

\* parseSectionsStrict throws when there is an error.
StrictParses(markdown) == parseSections(markdown).errors = <<>>

\* getSection: the first parsed section of that name; when there is none
\* (null in the code) a record whose name is NULL.
getSection(markdown, name) ==
    LET sections == parseSections(markdown).sections
        found == {i \in 1..Len(sections) : sections[i].name = name}
    IN IF found = {} THEN [name |-> NULL] ELSE sections[First(found)]

\* What a function that may throw gives: the error thrown or its value.
Throws == [threw |-> TRUE, value |-> <<>>]

Returns(value) == [threw |-> FALSE, value |-> value]

\* replaceSection; Throws stands for each of its three errors.  The START
\* pattern matches the first START marker of the section, whatever its
\* flags, anywhere in the text.
replaceSection(markdown, sectionName, newContent) ==
    LET startIdx ==
            First({i \in 0..(Len(markdown) - 1) :
                      /\ markdown[i + 1].k = "start"
                      /\ markdown[i + 1].name = sectionName})
        endIdx == indexOf(markdown, EndMarker(sectionName), 0)
    IN IF startIdx = -1 \/ endIdx = -1 \/ endIdx < startIdx THEN Throws
       ELSE Returns(slice(markdown, 0, startIdx + 1) \o <<NL>>
                    \o newContent \o <<NL>>
                    \o slice(markdown, endIdx, Len(markdown)))

createSection(name, content, flags) ==
    <<StartMarker(name, flags), NL>> \o content
    \o <<NL, EndMarker(name)>>

\* The text of generateFrontmatter: its lines hold no text of the user.
generateFrontmatter(entry) ==
    join(<<<<Text("---")>>, <<Text("type: "), Text(entry.entryType)>>>>
         \o (IF entry.originalAudioRelpath # NULL
             THEN <<<<Text("audio_file: "),
                      Text(entry.originalAudioRelpath)>>>>
             ELSE <<>>)
         \o <<<<Text("tags: [journal, "), Text(entry.entryType),
                Text("]")>>,
              <<Text("---")>>>>, NL)

generateTitle(entry) ==
    CASE entry.entryType = "brain-dump" -> Text("Brain Dump - ")
      [] entry.entryType = "daily-reflection" -> Text("Daily Reflection - ")
      [] entry.entryType = "quick-note" -> Text("Quick Note - ")

\* generateAudioSection, for an entry that has its audio.
generateAudioSection(entry) ==
    <<Text("## Audio"), NL, NL, Text("[Audio Recording](audio/"),
      Text(entry.originalAudioRelpath), Text(")")>>

\* A section as generateNoteContent hands it to createSection.
Section(name, content, flags) ==
    [name |-> name, content |-> content, flags |-> flags]

Heading(title, text) == <<Text(title), NL, NL>> \o text

\* The collapsed transcript: the text inside the <details> wrapper.
Collapsed(transcript) ==
    <<Text("<details>"), NL, Text("<summary>Raw Transcript</summary>"),
      NL, NL>> \o transcript \o <<NL, NL, Text("</details>")>>

\* The section made when its text is not empty.
Maybe(text, section) == IF text # <<>> THEN <<section>> ELSE <<>>

\* The createSection calls of generateNoteContent, in their order.
NoteSections(entry, transcript, promptAnswers, generatedSections) ==
    (IF entry.originalAudioRelpath # NULL
     THEN <<Section("AUDIO", generateAudioSection(entry), <<"immutable">>)>>
     ELSE <<>>)
    \o (CASE entry.entryType = "brain-dump" ->
               Maybe(generatedSections.JOURNAL,
                     Section("JOURNAL", generatedSections.JOURNAL,
                             <<"generated">>))
          [] entry.entryType = "daily-reflection" ->
               Maybe(promptAnswers.gratitude,
                     Section("GRATITUDE",
                             Heading("## Gratitude",
                                     promptAnswers.gratitude), <<>>))
               \o Maybe(promptAnswers.accomplishments,
                        Section("ACCOMPLISHMENTS",
                                Heading("## Accomplishments",
                                        promptAnswers.accomplishments),
                                <<>>))
               \o Maybe(promptAnswers.challenges,
                        Section("CHALLENGES",
                                Heading("## Challenges & Lessons",
                                        promptAnswers.challenges), <<>>))
               \o Maybe(promptAnswers.tomorrow,
                        Section("TOMORROW",
                                Heading("## Tomorrow's Focus",
                                        promptAnswers.tomorrow), <<>>))
               \o Maybe(generatedSections.AI_REFLECTION,
                        Section("AI_REFLECTION",
                                Heading("## Reflection",
                                        generatedSections.AI_REFLECTION),
                                <<"generated">>))
          [] OTHER -> <<>>)
    \o <<IF entry.entryType = "quick-note"
         THEN Section("TRANSCRIPT", Heading("## Transcript", transcript),
                      <<"immutable">>)
         ELSE Section("TRANSCRIPT", Collapsed(transcript),
                      <<"immutable">>),
         Section("RELATED", <<Text("## Related Entries"), NL>>,
                 <<"generated">>)>>

\* The elements pushed for the sections: each section's text, and an empty
\* string after each but the last (RELATED).
RECURSIVE SectionParts(_)
SectionParts(sections) ==
    IF sections = <<>> THEN <<>>
    ELSE LET s == Head(sections)
             text == createSection(s.name, s.content, s.flags)
         IN IF Len(sections) = 1 THEN <<text>>
            ELSE <<text, <<>>>> \o SectionParts(Tail(sections))

generateNoteContent(entry, transcript, promptAnswers, generatedSections) ==
    join(<<generateFrontmatter(entry), <<>>,
           <<Text("# "), generateTitle(entry)>>, <<>>,
           <<Text("#journal #"), Text(entry.entryType)>>, <<>>>>
         \o SectionParts(NoteSections(entry, transcript, promptAnswers,
                                      generatedSections)), NL)

(***************************************************************************)
(* The library calls on note text, each applied to inputs drawn from small *)
(* sets.  call holds the arguments and the result of the last call.        *)
(***************************************************************************)
\* Texts of a transcript, an answer or a generated section: empty, plain,
\* of two lines, ending in a newline, and with a line that is a marker.
NoteTexts ==
    {<<>>, <<Text("w")>>, <<Text("w"), NL, Text("v")>>, <<Text("w"), NL>>,
     <<Text("<details>")>>, <<Text("w"), NL, EndMarker("TRANSCRIPT")>>,
     <<StartMarker("JOURNAL", <<>>), NL, Text("w")>>}

GenerateNote ==
    /\ call = NoCall
    /\ \E entryType \in EntryTypes, audio \in {NULL, "a.webm"},
          transcript \in NoteTexts, gratitude \in NoteTexts,
          accomplishments \in {<<>>, <<Text("w")>>},
          tomorrow \in {<<>>, <<Text("w")>>}, generated \in NoteTexts :
          LET entry == [entryType |-> entryType,
                        originalAudioRelpath |-> audio]
              promptAnswers ==
                  IF entryType = "daily-reflection"
                  THEN [gratitude |-> gratitude,
                        accomplishments |-> accomplishments,
                        challenges |-> <<>>, tomorrow |-> tomorrow]
                  ELSE [gratitude |-> <<>>, accomplishments |-> <<>>,
                        challenges |-> <<>>, tomorrow |-> <<>>]
              generatedSections ==
                  [JOURNAL |->
                       IF entryType = "brain-dump" THEN generated
                       ELSE <<>>,
                   AI_REFLECTION |->
                       IF entryType = "daily-reflection" THEN generated
                       ELSE <<>>]
          IN call' = [fn |-> "generateNoteContent",
                      entry |-> entry,
                      transcript |-> transcript,
                      sections |->
                          NoteSections(entry, transcript, promptAnswers,
                                       generatedSections),
                      result |->
                          generateNoteContent(entry, transcript,
                                              promptAnswers,
                                              generatedSections)]
    /\ UNCHANGED <<entries, runs, childProcesses, uploads, runnerActive,
                   runnerId, keepAudio, now, wasReset, prompted, last,
                   disk, notes>>

MaxDocLen == 6

\* Every text of bounded length is a note: the vault is the user's, who
\* edits the notes at will.
Documents ==
    LET atoms == {Text("w"), NL,
                  StartMarker("JOURNAL", <<>>), EndMarker("JOURNAL"),
                  StartMarker("TRANSCRIPT", <<>>), EndMarker("TRANSCRIPT")}
    IN UNION {[1..n -> atoms] : n \in 0..MaxDocLen}

NewContents == {<<>>, <<Text("n")>>, <<Text("n"), NL, Text("m")>>}

\* replaceSection as updateNoteSection calls it: on a text that parsed
\* strictly.
ReplaceSection ==
    /\ call = NoCall
    /\ \E markdown \in Documents, sectionName \in {"JOURNAL", "TRANSCRIPT"},
          newContent \in NewContents :
          /\ StrictParses(markdown)
          /\ call' = [fn |-> "replaceSection",
                      markdown |-> markdown,
                      sectionName |-> sectionName,
                      newContent |-> newContent,
                      result |->
                          replaceSection(markdown, sectionName, newContent)]
    /\ UNCHANGED <<entries, runs, childProcesses, uploads, runnerActive,
                   runnerId, keepAudio, now, wasReset, prompted, last,
                   disk, notes>>

\* One call of parseSections and of parseSectionsStrict on a text.
ParseSections ==
    /\ call = NoCall
    /\ \E markdown \in Documents :
          call' = [fn |-> "parseSections", markdown |-> markdown,
                   result |-> parseSections(markdown),
                   strict |-> StrictParses(markdown)]
    /\ UNCHANGED <<entries, runs, childProcesses, uploads, runnerActive,
                   runnerId, keepAudio, now, wasReset, prompted, last,
                   disk, notes>>

NextParse ==
    \/ ParseSections

SpecParse == Init /\ [][NextParse]_vars

\* The heading that updateNoteContent puts before the new text of a
\* section; TRANSCRIPT has its own handling.
SECTION_HEADERS ==
    [JOURNAL |-> "## User - Daily Strategic Journal",
     TRANSCRIPT |-> "",
     GRATITUDE |-> "## Gratitude",
     ACCOMPLISHMENTS |-> "## Accomplishments",
     CHALLENGES |-> "## Challenges & Lessons",
     TOMORROW |-> "## Tomorrow's Focus",
     AI_REFLECTION |-> "## Reflection"]

\* String.prototype.includes('<details>')
includes(str, v) == \E i \in 1..Len(str) : str[i] = Text(v)

\* The loop of updateNoteContent over the entries of editedSections, a
\* sequence of pairs of a section name and its new text.
RECURSIVE EditSections(_, _)
EditSections(content, editedSections) ==
    IF editedSections = <<>> THEN Returns(content)
    ELSE LET sectionName == Head(editedSections)[1]
             newContent == Head(editedSections)[2]
             section == getSection(content, sectionName)
             header == IF sectionName \in DOMAIN SECTION_HEADERS
                       THEN SECTION_HEADERS[sectionName]
                       ELSE ""
             fullContent ==
                 IF sectionName = "TRANSCRIPT"
                 THEN IF includes(section.content, "<details>")
                      THEN Collapsed(newContent)
                      ELSE Heading("## Transcript", newContent)
                 ELSE IF header # "" THEN Heading(header, newContent)
                      ELSE newContent
             replaced == replaceSection(content, sectionName, fullContent)
         IN IF section.name = NULL
            THEN EditSections(content, Tail(editedSections))
            ELSE IF replaced.threw THEN Throws
                 ELSE EditSections(replaced.value, Tail(editedSections))

\* EditedContent without parseSectionsStrict.
EditedContent_Unchecked(content, editedSections) ==
    EditSections(content, editedSections)

\* The text that updateNoteContent writes for the text it read, or the
\* error of parseSectionsStrict or of replaceSection.
EditedContent(content, editedSections) ==
    IF ~StrictParses(content) THEN Throws
    ELSE EditSections(content, editedSections)

\* Notes as writeNote left them.
WrittenNotes ==
    {generateNoteContent([entryType |-> entryType,
                          originalAudioRelpath |-> audio],
                         transcript,
                         [gratitude |-> <<Text("w")>>,
                          accomplishments |-> <<>>, challenges |-> <<>>,
                          tomorrow |-> <<>>],
                         [JOURNAL |-> <<Text("w")>>,
                          AI_REFLECTION |-> <<Text("w")>>]) :
        entryType \in EntryTypes, audio \in {NULL, "a.webm"},
        transcript \in NoteTexts}

\* editedSections of a request: one or two sections.
EditedSections ==
    LET others == {"JOURNAL", "AUDIO", "GRATITUDE", "NOTES"}
    IN {<<<<name, text>>>> :
           name \in others \cup {"TRANSCRIPT"}, text \in NewContents}
       \cup {<<<<"TRANSCRIPT", text>>, <<other, <<Text("m")>>>>>> :
                text \in NewContents, other \in others}
       \cup {<<<<other, <<Text("m")>>>>, <<"TRANSCRIPT", text>>>> :
                text \in NewContents, other \in others}

\* The text part of updateNoteContent for a note of the vault.
EditNote ==
    /\ call = NoCall
    /\ \E content \in WrittenNotes, editedSections \in EditedSections :
          call' = [fn |-> "updateNoteContent",
                   content |-> content,
                   editedSections |-> editedSections,
                   result |-> EditedContent(content, editedSections)]
    /\ UNCHANGED <<entries, runs, childProcesses, uploads, runnerActive,
                   runnerId, keepAudio, now, wasReset, prompted, last,
                   disk, notes>>

NextMarkdown ==
    \/ GenerateNote
    \/ ReplaceSection
    \/ EditNote

SpecMarkdown == Init /\ [][NextMarkdown]_vars

(***************************************************************************)
(* PATCH with editedSections for an entry that has a note: the call of     *)
(* updateNoteContent from await to await, and the handler's updateEntry.   *)
(* call holds the text and the modification time of the note file, the     *)
(* noteMtime of the entry and where the call stands.                       *)
(***************************************************************************)
MaxFileLen == 5

\* The notes that the call may find: notes as writeNote left them, the
\* same with one marker deleted, and every short text of markers and
\* newlines.
NoteFiles ==
    LET RemoveAt(n, i) == SubSeq(n, 1, i - 1) \o SubSeq(n, i + 1, Len(n))
        Cuts(n) == {RemoveAt(n, i) :
                       i \in {j \in 1..Len(n) : n[j].k \in {"start", "end"}}}
    IN WrittenNotes
       \cup UNION {Cuts(n) : n \in WrittenNotes}
       \cup {d \in Documents :
                Len(d) <= MaxFileLen /\ \A i \in 1..Len(d) : d[i].k # "text"}

\* The editedSections of the requests: the sections that a short text has.
NoteEdits ==
    {e \in EditedSections :
        \A i \in 1..Len(e) : e[i][1] \in {"JOURNAL", "TRANSCRIPT"}}

\* The handler calls updateNoteContent, which awaits fs.readFile.
EditBegin ==
    /\ call = NoCall
    /\ \E file \in NoteFiles, editedSections \in NoteEdits :
          call' = [fn |-> "updateNoteContent", pc |-> "readFile",
                   original |-> file, file |-> file, mtime |-> 1,
                   noteMtime |-> 1, editedSections |-> editedSections,
                   content |-> <<>>, error |-> "", status |-> 0]
    /\ UNCHANGED <<entries, runs, childProcesses, uploads, runnerActive,
                   runnerId, keepAudio, now, wasReset, prompted, last,
                   disk, notes>>

\* The call is at the await named pc.
Editing(pc) == call.fn = "updateNoteContent" /\ call.pc = pc

\* The call throws; the handler's catch answers 500.
EditThrows(error) ==
    /\ call' = [call EXCEPT !.pc = "done", !.error = error, !.status = 500]
    /\ UNCHANGED <<entries, runs, childProcesses, uploads, runnerActive,
                   runnerId, keepAudio, now, wasReset, prompted, last,
                   disk, notes>>

\* One await of the call is over and the next one begins.
EditGoes(next) ==
    /\ call' = next
    /\ UNCHANGED <<entries, runs, childProcesses, uploads, runnerActive,
                   runnerId, keepAudio, now, wasReset, prompted, last,
                   disk, notes>>

\* After fs.readFile: parseSectionsStrict, the loop over editedSections,
\* and the start of fs.writeFile on the temporary path.
EditRead ==
    /\ Editing("readFile")
    /\ \E ok \in BOOLEAN :
          IF ~ok THEN EditThrows("Note file not found")
          ELSE LET edited == EditedContent(call.file, call.editedSections)
               IN IF edited.threw THEN EditThrows("text")
                  ELSE EditGoes([call EXCEPT !.pc = "writeFile",
                                             !.content = edited.value])

\* After fs.writeFile: fs.rename is started; a failure ends in the catch,
\* which unlinks the temporary file.
EditWritten ==
    /\ Editing("writeFile")
    /\ \E ok \in BOOLEAN :
          IF ok THEN EditGoes([call EXCEPT !.pc = "rename"])
          ELSE EditThrows("writeFile")

\* After fs.rename: the temporary file, written after the note, is at the
\* note's path; fs.stat is started.
EditRenamed ==
    /\ Editing("rename")
    /\ \E ok \in BOOLEAN :
          IF ok THEN EditGoes([call EXCEPT !.pc = "stat",
                                           !.file = call.content,
                                           !.mtime = call.mtime + 1])
          ELSE EditThrows("rename")

\* After fs.stat: the call returns the mtime, the handler stores it in
\* noteMtime and answers 200.
EditStat ==
    /\ Editing("stat")
    /\ \E ok \in BOOLEAN :
          IF ok THEN EditGoes([call EXCEPT !.pc = "done",
                                           !.noteMtime = call.mtime,
                                           !.status = 200])
          ELSE EditThrows("stat")

NextEdit ==
    \/ EditBegin
    \/ EditRead
    \/ EditWritten
    \/ EditRenamed
    \/ EditStat

SpecEdit == Init /\ [][NextEdit]_vars

(***************************************************************************)
(* GET /api/audio/[...path].  A path is a sequence of tokens: the          *)
(* separator "/", the dot ".", and names that hold neither.                *)
(***************************************************************************)
\* str.split('/')
RECURSIVE split(_)
split(str) ==
    LET at == First({i \in 0..(Len(str) - 1) : str[i + 1] = "/"})
    IN IF at = -1 THEN <<str>>
       ELSE <<slice(str, 0, at)>> \o split(slice(str, at + 1, Len(str)))

\* The segments of a normalized path: empty segments and "." dropped, ".."
\* taking the segment before it, if any, with it.
RECURSIVE normalize(_, _)
normalize(segments, done) ==
    IF segments = <<>> THEN done
    ELSE LET segment == Head(segments)
         IN normalize(Tail(segments),
                      IF segment = <<>> \/ segment = <<".">> THEN done
                      ELSE IF segment = <<".", ".">>
                           THEN slice(done, 0, Len(done) - 1)
                           ELSE Append(done, segment))

\* path.resolve of an absolute path (path.join gives the same for one).
resolve(fullPath) == <<"/">> \o join(normalize(split(fullPath), <<>>), "/")

\* settings.vaultPath
vaultPath == <<"/", "vault">>

PathSegments ==
    {<<>>, <<".">>, <<".", ".">>, <<"journal">>, <<"audio">>,
     <<"a", ".", "wav">>, <<"a", ".", ".", "wav">>, <<"etc">>}

MaxSegments == 4

\* The first check without its search for '..'.
InvalidPath_LeadingSlashOnly(relativePath) ==
    startsWith(relativePath, <<"/">>)

\* The first check of the path: the text '..' anywhere, or a leading '/'.
InvalidPath(relativePath) ==
    \/ \E i \in 1..(Len(relativePath) - 1) :
           relativePath[i] = "." /\ relativePath[i + 1] = "."
    \/ startsWith(relativePath, <<"/">>)

\* The response status of GET and the path it gave to fs.access, if it
\* came that far (<<>> otherwise); found is what is at that path.
ServeAudio ==
    /\ call = NoCall
    /\ \E n \in 0..MaxSegments,
          found \in {"file", "directory", "nothing"} :
       \E pathSegments \in [1..n -> PathSegments] :
          LET relativePath == join(pathSegments, "/")
              fullPath == resolve(vaultPath \o <<"/">> \o relativePath)
              rejected ==
                  IF pathSegments = <<>> THEN 400
                  ELSE IF InvalidPath(relativePath) THEN 400
                  ELSE IF ~startsWith(relativePath,
                                      <<"journal", "/", "audio", "/">>)
                       THEN 403
                       ELSE IF ~startsWith(resolve(fullPath),
                                           resolve(vaultPath))
                            THEN 403
                            ELSE 0
          IN call' = [fn |-> "GET /api/audio",
                      pathSegments |-> pathSegments,
                      found |-> found,
                      status |->
                          IF rejected # 0 THEN rejected
                          ELSE CASE found = "nothing" -> 404
                                 [] found = "directory" -> 500
                                 [] found = "file" -> 200,
                      access |-> IF rejected # 0 THEN <<>> ELSE fullPath]
    /\ UNCHANGED <<entries, runs, childProcesses, uploads, runnerActive,
                   runnerId, keepAudio, now, wasReset, prompted, last,
                   disk, notes>>

NextAudio ==
    \/ ServeAudio

SpecAudio == Init /\ [][NextAudio]_vars

(***************************************************************************)
(* The transcribing stage's choice between one call and chunks             *)
(* (job-runner.ts, lib/services/whisper, lib/services/audio).  Durations   *)
(* are whole numbers of the smallest amount two durations differ by.       *)
(***************************************************************************)
overlapSeconds == 5

MaxChunkIndex == 100

MaxDuration == 130

\* A file handed to transcribe: the normalized WAV, or a chunk cut from it.
AudioChunk(path, index, startTime, endTime) ==
    [path |-> path, index |-> index, startTime |-> startTime,
     endTime |-> endTime]

\* The while loop of splitAudio.
RECURSIVE SplitFrom(_, _, _, _, _, _)
SplitFrom(totalDuration, chunkDuration, overlap, startTime, index, chunks) ==
    IF startTime >= totalDuration THEN Returns(chunks)
    ELSE LET sum == startTime + chunkDuration
             endTime == IF sum < totalDuration THEN sum ELSE totalDuration
         IN IF index + 1 > MaxChunkIndex THEN Throws
            ELSE SplitFrom(totalDuration, chunkDuration, overlap,
                           startTime + (chunkDuration - overlap), index + 1,
                           Append(chunks,
                                  AudioChunk("chunk", index, startTime,
                                             endTime)))

\* splitAudio for the normalized WAV, whose duration it measures itself.
splitAudio(totalDuration, chunkDuration, overlap) ==
    IF totalDuration <= chunkDuration
    THEN Returns(<<AudioChunk("wav", 0, 0, totalDuration)>>)
    ELSE SplitFrom(totalDuration, chunkDuration, overlap, 0, 0, <<>>)

\* The files that transcribeChunked has transcribed, in order.
transcribeChunked(audioDuration, totalDuration, chunkDuration, overlap) ==
    IF audioDuration <= chunkDuration
    THEN Returns(<<AudioChunk("wav", 0, 0, totalDuration)>>)
    ELSE splitAudio(totalDuration, chunkDuration, overlap)

\* The transcribing stage.  audioDuration is entry.audioDurationSeconds,
\* which normalizeAudio measured on the uploaded file; totalDuration is what
\* splitAudio measures on the normalized WAV; setting is
\* settings.chunkDurationSeconds.
Transcribing(audioDuration, totalDuration, setting) ==
    LET chunkDuration == IF setting # 0 THEN setting ELSE ChunkDuration
    IN IF audioDuration > chunkDuration
       THEN transcribeChunked(audioDuration, totalDuration, chunkDuration,
                              overlapSeconds)
       ELSE Returns(<<AudioChunk("wav", 0, 0, totalDuration)>>)

\* The two measurements are of two files: they agree or differ by the
\* smallest amount.
TranscribeAudio ==
    /\ call = NoCall
    /\ \E audioDuration \in 1..MaxDuration, setting \in {0, 8, 60},
          totalDuration \in 1..(MaxDuration + 1) :
          /\ totalDuration \in (audioDuration - 1)..(audioDuration + 1)
          /\ call' = [fn |-> "transcribing",
                      audioDuration |-> audioDuration,
                      totalDuration |-> totalDuration,
                      chunkDuration |->
                          IF setting # 0 THEN setting ELSE ChunkDuration,
                      result |->
                          Transcribing(audioDuration, totalDuration,
                                       setting)]
    /\ UNCHANGED <<entries, runs, childProcesses, uploads, runnerActive,
                   runnerId, keepAudio, now, wasReset, prompted, last,
                   disk, notes>>

NextChunks ==
    \/ TranscribeAudio

SpecChunks == Init /\ [][NextChunks]_vars

(***************************************************************************)
(* splitAudio from await to await (lib/services/audio): the measurement of *)
(* the duration, then one extractChunk per turn of the loop.               *)
(***************************************************************************)
MaxSplitDuration == 12

MaxWindow == 4

\* The durations that are measured: short ones, and those for which the
\* number of chunks reaches the ceiling.
SplitDurations == 1..MaxSplitDuration \cup {MaxChunkIndex, MaxChunkIndex + 1}

\* The test of the safety check with twice the ceiling.
TooManyChunks_Twice(index) == index > 2 * MaxChunkIndex

\* if (index > 100) throw
TooManyChunks(index) == index > MaxChunkIndex

\* splitAudio is called and awaits getAudioDuration.
SplitBegin ==
    /\ call = NoCall
    /\ \E chunkDuration \in 1..MaxWindow, overlap \in 0..(MaxWindow + 1) :
          call' = [fn |-> "splitAudio", pc |-> "getAudioDuration",
                   chunkDuration |-> chunkDuration, overlap |-> overlap,
                   totalDuration |-> 0, startTime |-> 0, index |-> 0,
                   chunks |-> <<>>]
    /\ UNCHANGED <<entries, runs, childProcesses, uploads, runnerActive,
                   runnerId, keepAudio, now, wasReset, prompted, last,
                   disk, notes>>

\* The test of the while loop with what follows it: the await on
\* extractChunk of the next turn, or the return of the chunks.
SplitLoop(c) ==
    IF c.startTime < c.totalDuration THEN [c EXCEPT !.pc = "extractChunk"]
    ELSE [c EXCEPT !.pc = "returned"]

\* getAudioDuration has returned: a short file is returned as it is, a
\* longer one enters the loop.
SplitMeasured ==
    /\ call.fn = "splitAudio"
    /\ call.pc = "getAudioDuration"
    /\ \E totalDuration \in SplitDurations :
          call' = IF totalDuration <= call.chunkDuration
                  THEN [call EXCEPT
                          !.pc = "returned",
                          !.totalDuration = totalDuration,
                          !.chunks = <<AudioChunk("wav", 0, 0,
                                                  totalDuration)>>]
                  ELSE SplitLoop([call EXCEPT
                                     !.totalDuration = totalDuration])
    /\ UNCHANGED <<entries, runs, childProcesses, uploads, runnerActive,
                   runnerId, keepAudio, now, wasReset, prompted, last,
                   disk, notes>>

\* extractChunk has returned: the chunk is pushed, startTime and index move
\* on, the safety check and the test of the loop follow.
SplitExtracted ==
    /\ call.fn = "splitAudio"
    /\ call.pc = "extractChunk"
    /\ LET sum == call.startTime + call.chunkDuration
           endTime == IF sum < call.totalDuration THEN sum
                      ELSE call.totalDuration
           pushed == [call EXCEPT
                        !.chunks = Append(@, AudioChunk("chunk", call.index,
                                                        call.startTime,
                                                        endTime)),
                        !.startTime = @ + (call.chunkDuration - call.overlap),
                        !.index = @ + 1]
       IN call' = IF TooManyChunks(pushed.index)
                  THEN [pushed EXCEPT !.pc = "threw"]
                  ELSE SplitLoop(pushed)
    /\ UNCHANGED <<entries, runs, childProcesses, uploads, runnerActive,
                   runnerId, keepAudio, now, wasReset, prompted, last,
                   disk, notes>>

NextSplit ==
    \/ SplitBegin
    \/ SplitMeasured
    \/ SplitExtracted

SpecSplit == Init /\ [][NextSplit]_vars

\* ffprobe and ffmpeg exit: an await of splitAudio does not last for ever.
SpecSplitFair ==
    SpecSplit /\ WF_vars(SplitMeasured) /\ WF_vars(SplitExtracted)

(***************************************************************************)
(* The note file of one entry (services/vault.ts).  A file is an inode: a  *)
(* sequence of chunks, each tagged with who wrote it, and the time of its  *)
(* last modification.  names gives the inode at the note's path and at the *)
(* temporary path of each value of Date.now(); 0 is "no such file".        *)
(***************************************************************************)
Writers == 1..MaxWriters

\* One call of writeNote or updateNoteContent, between two awaits.
Writer(pc, temp, fd, chunks) ==
    [pc |-> pc, temp |-> temp, fd |-> fd, chunks |-> chunks]

\* The inode at the note's path and its modification time (0 when none).
NoteFile == disk.names[-1]

Mtime(d) == IF d.names[-1] = 0 THEN 0 ELSE d.mtime[d.names[-1]]

\* A call begins: tempPath takes Date.now().  writeNote goes on to write;
\* updateNoteContent, which PATCH calls for an entry with a note, reads
\* the note first.
BeginWrite(w) ==
    /\ disk.writers[w].pc = "idle"
    /\ disk.started < MaxWrites
    /\ disk' = [disk EXCEPT
                  !.started = @ + 1,
                  !.writers[w] =
                      Writer(IF disk.noteRelpath THEN "readFile"
                             ELSE "writeFile", disk.ms, 0, 0)]
    /\ UNCHANGED <<entries, runs, childProcesses, uploads, runnerActive,
                   runnerId, keepAudio, now, wasReset, prompted, last,
                   call, notes>>

\* fs.readFile of updateNoteContent: without the file the call throws.
ReadFile(w) ==
    /\ disk.writers[w].pc = "readFile"
    /\ disk' = [disk EXCEPT
                  !.writers[w].pc =
                      IF NoteFile = 0 THEN "idle" ELSE "writeFile"]
    /\ UNCHANGED <<entries, runs, childProcesses, uploads, runnerActive,
                   runnerId, keepAudio, now, wasReset, prompted, last,
                   call, notes>>

\* fs.writeFile opens the temporary path: it creates the file, or empties
\* the one that is there.
OpenTemp(w) ==
    /\ disk.writers[w].pc = "writeFile"
    /\ LET me == disk.writers[w]
           used == {disk.names[n] : n \in DOMAIN disk.names}
                   \cup {disk.writers[v].fd : v \in Writers}
           inode == IF disk.names[me.temp] # 0 THEN disk.names[me.temp]
                    ELSE CHOOSE i \in DOMAIN disk.data : i \notin used
       IN disk' = [disk EXCEPT
                     !.stamp = @ + 1,
                     !.names[me.temp] = inode,
                     !.data[inode] = <<>>,
                     !.mtime[inode] = disk.stamp + 1,
                     !.writers[w] = Writer("write", me.temp, inode, 0)]
    /\ UNCHANGED <<entries, runs, childProcesses, uploads, runnerActive,
                   runnerId, keepAudio, now, wasReset, prompted, last,
                   call, notes>>

\* fs.writeFile writes its next chunk at its own offset in the open file,
\* and has returned after the last one.
WriteChunk(w) ==
    /\ disk.writers[w].pc = "write"
    /\ LET me == disk.writers[w]
           old == disk.data[me.fd]
           new == [i \in 1..(IF Len(old) > me.chunks + 1 THEN Len(old)
                             ELSE me.chunks + 1) |->
                      IF i = me.chunks + 1 THEN w
                      ELSE IF i <= Len(old) THEN old[i] ELSE 0]
       IN disk' = [disk EXCEPT
                     !.stamp = @ + 1,
                     !.data[me.fd] = new,
                     !.mtime[me.fd] = disk.stamp + 1,
                     !.writers[w] =
                         Writer(IF me.chunks + 1 = FileChunks THEN "rename"
                                ELSE "write",
                                me.temp, me.fd, me.chunks + 1)]
    /\ UNCHANGED <<entries, runs, childProcesses, uploads, runnerActive,
                   runnerId, keepAudio, now, wasReset, prompted, last,
                   call, notes>>

\* fs.rename puts the temporary file at the note's path; when the
\* temporary path is gone it fails, and the call throws after its unlink.
Rename(w) ==
    /\ disk.writers[w].pc = "rename"
    /\ LET me == disk.writers[w]
       IN IF disk.names[me.temp] = 0
          THEN disk' = [disk EXCEPT !.writers[w] = Writer("idle", 0, 0, 0)]
          ELSE disk' = [disk EXCEPT
                          !.names = [@ EXCEPT ![-1] = disk.names[me.temp],
                                              ![me.temp] = 0],
                          !.writers[w] = Writer("stat", me.temp, 0, 0)]
    /\ UNCHANGED <<entries, runs, childProcesses, uploads, runnerActive,
                   runnerId, keepAudio, now, wasReset, prompted, last,
                   call, notes>>

\* fs.stat of the note, the return of the call, and its caller's
\* updateEntry of noteMtime (and of noteRelpath after writeNote).
Stat(w) ==
    /\ disk.writers[w].pc = "stat"
    /\ disk' = [disk EXCEPT
                  !.noteRelpath = TRUE,
                  !.noteMtime = Mtime(disk),
                  !.writers[w] = Writer("idle", 0, 0, 0)]
    /\ UNCHANGED <<entries, runs, childProcesses, uploads, runnerActive,
                   runnerId, keepAudio, now, wasReset, prompted, last,
                   call, notes>>

\* readNote: what a reader of the note's path gets.
ReadNote ==
    /\ disk' = [disk EXCEPT
                  !.read = IF NoteFile = 0 THEN <<"null">>
                           ELSE <<"file", disk.data[NoteFile]>>]
    /\ UNCHANGED <<entries, runs, childProcesses, uploads, runnerActive,
                   runnerId, keepAudio, now, wasReset, prompted, last,
                   call, notes>>

\* hasExternalEdits as GET calls it for a completed entry: the entry it
\* was given, then the result of fs.stat compared with that entry's
\* noteMtime.
CheckExternalEdits ==
    /\ disk.noteRelpath
    /\ \/ /\ disk.check = <<"idle">>
          /\ disk' = [disk EXCEPT !.check = <<"stat", disk.noteMtime>>]
       \/ /\ disk.check[1] = "stat"
          /\ disk' = [disk EXCEPT
                        !.check = <<"idle">>,
                        !.hasEdits =
                            /\ disk.check[2] # 0
                            /\ NoteFile # 0
                            /\ Mtime(disk) > disk.check[2]]
    /\ UNCHANGED <<entries, runs, childProcesses, uploads, runnerActive,
                   runnerId, keepAudio, now, wasReset, prompted, last,
                   call, notes>>

\* Another program (the editor of the vault) rewrites the note.
ExternalEdit ==
    /\ NoteFile # 0
    /\ ~disk.external
    /\ disk' = [disk EXCEPT
                  !.stamp = @ + 1,
                  !.external = TRUE,
                  !.data[NoteFile] = [i \in 1..FileChunks |-> 0],
                  !.mtime[NoteFile] = disk.stamp + 1]
    /\ UNCHANGED <<entries, runs, childProcesses, uploads, runnerActive,
                   runnerId, keepAudio, now, wasReset, prompted, last,
                   call, notes>>

\* A millisecond passes.
Millisecond ==
    /\ disk.ms < MaxMs
    /\ disk' = [disk EXCEPT !.ms = @ + 1]
    /\ UNCHANGED <<entries, runs, childProcesses, uploads, runnerActive,
                   runnerId, keepAudio, now, wasReset, prompted, last,
                   call, notes>>

NextVault ==
    \/ \E w \in Writers :
          \/ BeginWrite(w)
          \/ ReadFile(w)
          \/ OpenTemp(w)
          \/ WriteChunk(w)
          \/ Rename(w)
          \/ Stat(w)
    \/ ReadNote
    \/ CheckExternalEdits
    \/ ExternalEdit
    \/ Millisecond

SpecVault == Init /\ [][NextVault]_vars

(***************************************************************************)
(* Transcript text (lib/services/whisper).  A transcript is a sequence of  *)
(* characters; a word is a sequence of characters without white space.     *)
(***************************************************************************)
\* What the pattern \s matches, of the characters of the model.
whitespace == {" ", "\n"}

\* String.prototype.trim for a transcript.
RECURSIVE trimString(_)
trimString(str) ==
    IF str = <<>> THEN str
    ELSE IF Head(str) \in whitespace THEN trimString(Tail(str))
         ELSE IF str[Len(str)] \in whitespace
              THEN trimString(SubSeq(str, 1, Len(str) - 1))
              ELSE str

\* str.split(/\s+/): the pieces between the runs of white space; a run at
\* an end of str leaves an empty piece there.
RECURSIVE splitWords(_)
splitWords(str) ==
    LET at == First({i \in 0..(Len(str) - 1) : str[i + 1] \in whitespace})
        next == First({i \in at..(Len(str) - 1) :
                          str[i + 1] \notin whitespace})
    IN IF at = -1 THEN <<str>>
       ELSE <<slice(str, 0, at)>>
                \o splitWords(IF next = -1 THEN <<>>
                              ELSE slice(str, next, Len(str)))

\* String.prototype.toLowerCase, for the capital letters of the model.
toLowerCase(str) ==
    LET lower == [A |-> "a", B |-> "b", H |-> "h"]
    IN [i \in 1..Len(str) |->
           IF str[i] \in DOMAIN lower THEN lower[str[i]] ELSE str[i]]

\* word.toLowerCase().replace(/[^\w]/g, ''): of the characters of the
\* model the letters match \w, punctuation and white space do not.
normalizeWord(word) ==
    SelectSeq(toLowerCase(word),
              LAMBDA c : c \notin whitespace \union {".", ","})

\* The positions at which the last minLen words of arr1 equal the first
\* minLen words of arr2.
countMatchingWords(arr1, arr2) ==
    LET minLen == IF Len(arr1) < Len(arr2) THEN Len(arr1) ELSE Len(arr2)
    IN Cardinality({i \in 0..(minLen - 1) :
                       arr1[Len(arr1) - minLen + i + 1] = arr2[i + 1]})

\* The loop of mergeTranscripts from chunk i (counted from 0) on; merged
\* is what the chunks before it have pushed.
RECURSIVE MergeFrom(_, _, _, _)
MergeFrom(transcripts, wordsInOverlap, i, merged) ==
    IF i >= Len(transcripts) THEN merged
    ELSE
    LET currentText == trimString(transcripts[i + 1])
        prevWords == splitWords(join(merged, " "))
        currentWords == splitWords(currentText)
        normal(words) == [k \in 1..Len(words) |-> normalizeWord(words[k])]
        tail == IF Len(prevWords) < wordsInOverlap * 2 THEN Len(prevWords)
                ELSE wordsInOverlap * 2
        prevTail == normal(slice(prevWords, Len(prevWords) - tail,
                                 Len(prevWords)))
        searchLimit == IF Len(currentWords) < wordsInOverlap * 3
                       THEN Len(currentWords) ELSE wordsInOverlap * 3
        to(start) == IF start + wordsInOverlap < Len(currentWords)
                     THEN start + wordsInOverlap ELSE Len(currentWords)
        matchLength(start) ==
            countMatchingWords(prevTail,
                               normal(slice(currentWords, start, to(start))))
        starts == 0..(searchLimit - 1)
        \* The first start with the most matches is the one that is kept.
        best == CHOOSE s \in starts :
                    /\ \A t \in starts : matchLength(t) <= matchLength(s)
                    /\ \A t \in starts :
                           matchLength(t) = matchLength(s) => s <= t
        bestMatchLength == IF starts = {} THEN 0 ELSE matchLength(best)
        bestOverlapIndex ==
            IF bestMatchLength = 0 THEN 0 ELSE best + bestMatchLength
        nonOverlappingPart ==
            join(slice(currentWords, bestOverlapIndex, Len(currentWords)),
                 " ")
    IN MergeFrom(transcripts, wordsInOverlap, i + 1,
                 IF i = 0 THEN <<currentText>>
                 ELSE IF bestMatchLength >= 2
                      THEN IF trimString(nonOverlappingPart) # <<>>
                           THEN Append(merged, nonOverlappingPart)
                           ELSE merged
                      ELSE Append(merged, currentText))

\* mergeTranscripts.  Math.ceil(overlapSeconds * 2.5) is taken for a whole
\* number of seconds; replace(/\s+/g, ' ') puts one space for every run of
\* white space, which is the pieces between the runs joined by a space.
mergeTranscripts(transcripts, overlap) ==
    IF Len(transcripts) = 0 THEN <<>>
    ELSE IF Len(transcripts) = 1 THEN transcripts[1]
         ELSE trimString(
                  join(splitWords(
                           join(MergeFrom(transcripts,
                                          (overlap * 5 + 1) \div 2, 0,
                                          <<>>),
                                " ")),
                       " "))

MaxWords == 2

\* The transcripts of the model: up to MaxWords words with one space
\* between them and, or not, white space at either end.
Transcripts ==
    LET vocabulary == {<<"a">>, <<"b">>, <<"B", ".">>}
        ends == {<<>>, <<" ">>, <<"\n">>}
        phrases == UNION {[1..n -> vocabulary] : n \in 0..MaxWords}
    IN {l \o join(words, " ") \o r :
           words \in phrases, l \in ends, r \in ends}

\* One call of mergeTranscripts with the overlap that the runner passes.
MergeTranscripts ==
    /\ call = NoCall
    /\ \E transcripts \in UNION {[1..n -> Transcripts] : n \in 1..2} :
          call' = [fn |-> "mergeTranscripts", transcripts |-> transcripts,
                   result |-> mergeTranscripts(transcripts, overlapSeconds)]
    /\ UNCHANGED <<entries, runs, childProcesses, uploads, runnerActive,
                   runnerId, keepAudio, now, wasReset, prompted, last,
                   disk, notes>>

MaxRepeats == 15

\* detectHallucination.  The reason is given by the words it starts with,
\* "" when there is none.  text.length < expectedDurationSeconds * 5 * 0.3
\* is compared in whole numbers, which is exact for whole seconds.
detectHallucination(text, expectedDurationSeconds) ==
    LET Hallucination(reason) ==
            [isHallucination |-> TRUE, reason |-> reason]
        words == splitWords(text)
        phrase(i, phraseLen) ==
            toLowerCase(join(slice(words, i, i + phraseLen), " "))
        \* The two stretches of phraseLen words after the one at i hold
        \* the same phrase.
        repeated(i, phraseLen) ==
            /\ phrase(i + phraseLen, phraseLen) = phrase(i, phraseLen)
            /\ phrase(i + 2 * phraseLen, phraseLen) = phrase(i, phraseLen)
        normalized == [k \in 1..Len(words) |-> normalizeWord(words[k])]
        count(word) ==
            Cardinality({k \in 1..Len(words) : normalized[k] = word})
        totalWords == Len(words)
    IN IF trimString(text) = <<>> THEN Hallucination("Empty output")
       ELSE IF 2 * Len(text) < 3 * expectedDurationSeconds
       THEN Hallucination("Output too short")
       ELSE IF \E phraseLen \in 5..12 :
                   /\ Len(words) >= phraseLen * 3
                   /\ \E i \in 0..(Len(words) - phraseLen * 3) :
                          repeated(i, phraseLen)
       THEN Hallucination("Phrase repeated")
       ELSE IF \E k \in 1..Len(words) :
                   /\ Len(normalized[k]) > 2
                   /\ 5 * count(normalized[k]) > totalWords
                   /\ count(normalized[k]) > 10
       THEN Hallucination("Word repeated")
       ELSE [isHallucination |-> FALSE, reason |-> ""]

\* One call of detectHallucination, for a transcript of the model or for
\* the word 'hello ' a number of times over, and the duration of a chunk.
DetectHallucination ==
    /\ call = NoCall
    /\ \E text \in Transcripts
                   \union {[i \in 1..(6 * n) |->
                               <<"h", "e", "l", "l", "o", " ">>[
                                   ((i - 1) % 6) + 1]] :
                              n \in 0..MaxRepeats},
          expectedDurationSeconds \in 1..ChunkDuration :
          call' = [fn |-> "detectHallucination", text |-> text,
                   expectedDurationSeconds |-> expectedDurationSeconds,
                   result |->
                       detectHallucination(text, expectedDurationSeconds)]
    /\ UNCHANGED <<entries, runs, childProcesses, uploads, runnerActive,
                   runnerId, keepAudio, now, wasReset, prompted, last,
                   disk, notes>>

MaxChunks == 2

\* The ChunkTranscript that the loop of transcribeChunked pushes for one
\* chunk: text is what transcribe returned for it, retry what
\* transcribeConservative did, which is only called for a chunk that the
\* detector flags.  An alternativeText that was never set is the empty
\* text: the code only asks whether it is truthy.
ChunkTranscript(text, chunkDurationSecs, retry) ==
    LET hallCheck == detectHallucination(text, chunkDurationSecs)
        chunkResult == [text |-> text,
                        hadHallucination |-> hallCheck.isHallucination,
                        hallucinationReason |-> hallCheck.reason,
                        alternativeText |-> <<>>]
    IN IF ~hallCheck.isHallucination \/ retry.threw THEN chunkResult
       ELSE IF detectHallucination(retry.value,
                                   chunkDurationSecs).isHallucination
            THEN [chunkResult EXCEPT !.alternativeText = retry.value]
            ELSE [chunkResult EXCEPT !.alternativeText = text,
                                     !.text = retry.value]

\* What transcribeChunked returns for the results of its chunks.  The fixed
\* pieces of the output are single tokens of the text.
MergeChunkResults(chunkResults, overlap) ==
    LET indices == 1..Len(chunkResults)
        map(f(_)) == [i \in indices |-> f(i)]
        filter(array, keep(_)) == SelectSeq(array, keep)
        text(i) == chunkResults[i].text
        mergedText == mergeTranscripts(map(text), overlap)
        alternative(i) ==
            IF chunkResults[i].alternativeText # <<>>
            THEN <<"[CHUNK ", ToString(i), " ALTERNATIVE - ",
                   chunkResults[i].hallucinationReason, "]", "\n">>
                     \o chunkResults[i].alternativeText
            ELSE chunkResults[i].text
        alternativeMerged ==
            mergeTranscripts(
                filter(map(alternative),
                       LAMBDA t : ~startsWith(t, <<"[CHUNK ">>)),
                overlap)
        issue(i) == IF chunkResults[i].hadHallucination
                    THEN <<ToString(i)>> ELSE <<>>
        chunksWithIssues == filter(map(issue), LAMBDA n : n # <<>>)
        note == <<"[TRANSCRIPTION NOTE: Potential issues detected in ",
                  "chunk(s) ">>
                    \o join(chunksWithIssues, ", ")
                    \o <<". Review carefully.]">>
    IN IF \E i \in indices : chunkResults[i].hadHallucination
       THEN join(<<mergedText, <<>>, <<"---">>, note, <<>>,
                   <<"[ALTERNATIVE TRANSCRIPTION:]">>,
                   IF alternativeMerged # mergedText
                   THEN alternativeMerged ELSE <<"(Same as above)">>>>,
                 "\n")
       ELSE mergedText

\* The chunks of one call of transcribeChunked after splitAudio: what
\* whisper gives for each chunk, trimmed by transcribe, the duration of the
\* chunk and what the conservative retry would do.
TranscribeChunks ==
    /\ call = NoCall
    /\ \E n \in 1..MaxChunks :
          \E chunks \in
                [1..n ->
                    [text : {t \in Transcripts : t = trimString(t)},
                     duration : {1, 3},
                     retry : {Throws}
                                 \union {Returns(t) :
                                            t \in {r \in Transcripts :
                                                      /\ r = trimString(r)
                                                      /\ Len(r) \in {0, 3}}}
                     ]] :
              LET chunkResults ==
                      [i \in 1..n |->
                          ChunkTranscript(chunks[i].text, chunks[i].duration,
                                          chunks[i].retry)]
              IN call' = [fn |-> "transcribeChunked", chunks |-> chunks,
                          chunkResults |-> chunkResults,
                          result |-> MergeChunkResults(chunkResults,
                                                       overlapSeconds)]
    /\ UNCHANGED <<entries, runs, childProcesses, uploads, runnerActive,
                   runnerId, keepAudio, now, wasReset, prompted, last,
                   disk, notes>>

NextTranscripts ==
    \/ MergeTranscripts
    \/ DetectHallucination
    \/ TranscribeChunks

SpecTranscripts == Init /\ [][NextTranscripts]_vars

(***************************************************************************)
(* SpecMerge: mergeTranscripts at one join, with chunk texts long enough   *)
(* for an overlap that starts after the first word of the new chunk.       *)
(***************************************************************************)
MaxChunkWords == 3

\* The text of a chunk: from one word up to most words, one space between.
ChunkTexts(most) ==
    LET vocabulary == {<<"a">>, <<"b">>, <<"B", ".">>}
    IN {join(words, " ") :
           words \in UNION {[1..n -> vocabulary] : n \in 1..most}}

\* One call of mergeTranscripts with the texts of two chunks.
MergeJoin ==
    /\ call = NoCall
    /\ \E first \in ChunkTexts(MaxWords), second \in ChunkTexts(MaxChunkWords) :
          call' = [fn |-> "mergeTranscripts",
                   transcripts |-> <<first, second>>,
                   result |-> mergeTranscripts(<<first, second>>,
                                               overlapSeconds)]
    /\ UNCHANGED <<entries, runs, childProcesses, uploads, runnerActive,
                   runnerId, keepAudio, now, wasReset, prompted, last,
                   disk, notes>>

NextMerge == MergeJoin

SpecMerge == Init /\ [][NextMerge]_vars

(***************************************************************************)
(* Properties.                                                             *)
(***************************************************************************)
Disturbed == {"cancel_requested", "cancelled", "failed"}

\* The awaits inside the body of a stage (not those of the clean-up after
\* the writing stage or of finalizeCancellation).
StageBodyAwaits ==
    {"getAudioDuration", "ffmpeg", "fs.access", "whisper",
     "transcribeChunked", "generateJournal", "writeNote"}

\* C1 (cancel monotonicity): once an entry's stage is cancel_requested, the
\* only value the stage changes to is cancelled.
C1_CancelMonotonic ==
    [][\A id \in Ids :
          entries[id].stage = "cancel_requested"
          => entries'[id].stage \in {"cancel_requested", "cancelled"}]_vars

\* C2 (cancel liveness): an entry whose stage is cancel_requested eventually
\* has stage cancelled with locked_by cleared.
C2_CancelLiveness ==
    \A id \in 1..MaxEntries :
        (id \in Ids /\ entries[id].stage = "cancel_requested")
        ~> (id \in Ids /\ entries[id].stage = "cancelled"
            /\ entries[id].lockedBy = NoRunner)

\* C3 (raw transcript immutability): once raw_transcript_locked_at is set,
\* no step changes raw_transcript.
C3_RawTranscriptImmutable ==
    [][\A id \in Ids :
          entries[id].rawTranscriptLockedAt # NullTime
          => entries'[id].rawTranscript = entries[id].rawTranscript]_vars

C5_SingleWorker ==
    Cardinality({id \in Ids :
                    /\ entries[id].stage \in RunningStages
                    /\ \E r \in RunsOf(id) : r.pc \in StageBodyAwaits}) <= 1

\* The stages of an entry kind, in the order of a successful trajectory.
StageOrder(entryType) ==
    CASE entryType = "quick-note" ->
           <<"pending", "queued", "normalizing", "transcribing",
             "awaiting_review", "writing", "completed">>
      [] entryType = "brain-dump" ->
           <<"pending", "queued", "normalizing", "transcribing",
             "awaiting_review", "generating", "writing", "completed">>
      [] OTHER ->
           <<"pending", "queued", "normalizing", "transcribing",
             "awaiting_review", "awaiting_prompts", "generating", "writing",
             "completed">>

Follows(order, s, t) ==
    \E i \in 1..(Len(order) - 1) : order[i] = s /\ order[i + 1] = t

\* C6 (stage order by kind): an entry starts at pending; while it has seen no
\* cancel, failure or stuck-job reset, every change of its stage is a move to
\* the next stage of its kind's order; a quick-note is never at generating or
\* awaiting_prompts, a brain-dump never at awaiting_prompts, and a
\* daily-reflection is at generating only after it was at awaiting_prompts.
C6_StageOrder ==
    [][/\ \A id \in (DOMAIN entries') \ Ids : entries'[id].stage = "pending"
       /\ \A id \in Ids :
            LET s == entries[id].stage
                t == entries'[id].stage
                kind == entries[id].entryType
            IN /\ (/\ id \notin wasReset'
                   /\ s # t
                   /\ s \notin Disturbed
                   /\ t \notin Disturbed)
                  => Follows(StageOrder(kind), s, t)
               /\ kind = "quick-note"
                  => t \notin {"generating", "awaiting_prompts"}
               /\ kind = "brain-dump" => t # "awaiting_prompts"
               /\ (kind = "daily-reflection" /\ t = "generating")
                  => id \in prompted']_vars

\* C6's case: a daily-reflection went through its whole order undisturbed.
C6_Witness ==
    \E id \in Ids :
        /\ entries[id].entryType = "daily-reflection"
        /\ entries[id].stage = "completed"
        /\ id \notin wasReset

\* C7 (terminal stages are absorbing): once an entry's stage is completed,
\* failed or cancelled, no step changes it.
C7_TerminalAbsorbing ==
    [][\A id \in Ids :
          entries[id].stage \in {"completed", "failed", "cancelled"}
          => entries'[id].stage = entries[id].stage]_vars

\* C8 (cancel precondition): a cancel request is accepted exactly when the
\* stage is queued, normalizing, transcribing, generating or writing; in any
\* other stage it is answered 400, sends no signal and changes nothing.
C8_CancelPrecondition ==
    [][\A id \in Ids :
          (last'.op = "cancel" /\ last'.id = id)
          => IF entries[id].stage \in {"queued", "normalizing",
                                       "transcribing", "generating",
                                       "writing"}
             THEN /\ last'.status = 200
                  /\ entries'[id].stage = "cancel_requested"
             ELSE /\ last'.status = 400
                  /\ ~last'.signal
                  /\ UNCHANGED <<entries, runs, childProcesses, uploads,
                                 keepAudio>>]_vars

\* C8's case: a cancel request for an entry parked at awaiting_review was
\* answered 400.
C8_Witness ==
    /\ last.op = "cancel"
    /\ last.status = 400
    /\ last.id \in Ids
    /\ entries[last.id].stage = "awaiting_review"

\* The heartbeat is more than the threshold older than the current time.
HeartbeatStale(id) ==
    /\ entries[id].stage \in {"normalizing", "transcribing", "generating",
                              "writing"}
    /\ entries[id].heartbeatAt # NullTime
    /\ InstantOf(entries[id].heartbeatAt) < now - 5

\* C9 (stuck-job recovery): a runner tick resets every entry that is in a
\* running stage with a heartbeat more than 5 minutes old to queued, with
\* locked_by cleared and the reset message (the same tick may then lease it
\* and start normalizing with a fresh heartbeat).
C9_StuckRecovery ==
    [][(Tick \/ StartRunner)
       => \A id \in Ids :
            HeartbeatStale(id)
            => \/ /\ entries'[id].stage = "queued"
                  /\ entries'[id].lockedBy = NoRunner
                  /\ entries'[id].stageMessage = "Reset after timeout"
               \/ /\ entries'[id].stage = "normalizing"
                  /\ entries'[id].heartbeatAt = toISOString(now)]_vars

\* C10 (progress monotonicity): while an entry has seen no cancel, failure or
\* stuck-job reset, no step lowers its overallProgress.
C10_ProgressMonotonic ==
    [][\A id \in Ids :
          (/\ id \notin wasReset'
           /\ entries[id].stage \notin Disturbed
           /\ entries'[id].stage \notin Disturbed)
          => calculateOverallProgress(entries'[id].stage)
             >= calculateOverallProgress(entries[id].stage)]_vars

\* C10's case: a brain-dump reached completed, progress 100, undisturbed.
C10_Witness ==
    \E id \in Ids :
        /\ entries[id].entryType = "brain-dump"
        /\ entries[id].stage = "completed"
        /\ calculateOverallProgress(entries[id].stage) = 100
        /\ id \notin wasReset

\* C11 (continue outside an awaiting stage is a no-op): a PATCH whose only
\* field is action 'continue', for an entry that is neither at
\* awaiting_review nor at awaiting_prompts, changes no field of any entry,
\* starts no execution and is answered 200.
C11_ContinueNoOp ==
    [][\A id \in Ids :
          (/\ PatchEntry(id, NULL, <<>>, FALSE, TRUE, TRUE)
           /\ entries[id].stage \notin {"awaiting_review",
                                        "awaiting_prompts"})
          => /\ UNCHANGED <<entries, runs, childProcesses, uploads>>
             /\ last' = Response("patch", id, 200)]_vars

\* C11's case: a PATCH without edits was answered 200 for an entry that is
\* queued.
C11_Witness ==
    /\ last.op = "patch"
    /\ last.status = 200
    /\ last.id \in Ids
    /\ entries[last.id].stage = "queued"
    /\ entries[last.id].editedTranscript = NULL

\* C12 (upload MIME check): an upload whose file type does not begin with
\* 'audio/' is answered 400 and leaves the entry and the uploads in progress
\* unchanged.
C12_UploadMimeCheck ==
    [][\A id \in Ids, type \in MimeTypes, file \in Files :
          (/\ UploadRequest(id, type, file, TRUE)
           /\ ~startsWith(type, <<"a", "u", "d", "i", "o", "/">>))
          => /\ last' = Response("upload", id, 400)
             /\ UNCHANGED <<entries, uploads>>]_vars

\* C13: parsing the document that generateNoteContent wrote reports no
\* error and yields exactly the sections written, in the order written,
\* each with the name, the flags and the body it was written with.
C13_SectionRoundTrip ==
    call.fn = "generateNoteContent" =>
        LET parsed == parseSections(call.result)
        IN /\ parsed.errors = <<>>
           /\ Len(parsed.sections) = Len(call.sections)
           /\ \A i \in 1..Len(call.sections) :
                  /\ parsed.sections[i].name = call.sections[i].name
                  /\ parsed.sections[i].flags = call.sections[i].flags
                  /\ parsed.sections[i].content = call.sections[i].content

\* C14: replaceSection on a document that parses strictly, for a section
\* the parse finds in it, keeps everything up to and including the START
\* marker of that section and everything from its END marker onward, and
\* changes only what lies between them.
C14_ReplaceSectionFrame ==
    (/\ call.fn = "replaceSection"
     /\ getSection(call.markdown, call.sectionName).name # NULL
     /\ ~call.result.threw) =>
        LET markdown == call.markdown
            section == getSection(markdown, call.sectionName)
            result == call.result.value
            \* the START marker the parser matched on the section's first
            \* line, and the END marker it matched on its last line
            startAt ==
                First({i \in section.startIndex..(Len(markdown) - 1) :
                          markdown[i + 1].k = "start"})
            endLine ==
                {i \in 0..(section.endIndex - 1) :
                    \A j \in i..(section.endIndex - 1) :
                        markdown[j + 1] # NL}
            endAt == First({i \in endLine : markdown[i + 1].k = "end"})
            kept == Len(markdown) - endAt
        IN /\ Len(result) >= startAt + 1 + kept
           /\ slice(result, 0, startAt + 1) = slice(markdown, 0, startAt + 1)
           /\ slice(result, Len(result) - kept, Len(result))
                  = slice(markdown, endAt, Len(markdown))

\* C19: updateNoteContent with a new text for TRANSCRIPT writes the new text
\* inside the <details> wrapper exactly when the TRANSCRIPT body of the
\* note was in that wrapper, and under the '## Transcript' heading
\* otherwise.
C19_DetailsWrapperKept ==
    (/\ call.fn = "updateNoteContent"
     /\ ~call.result.threw
     /\ getSection(call.content, "TRANSCRIPT").name # NULL
     /\ \E i \in 1..Len(call.editedSections) :
            call.editedSections[i][1] = "TRANSCRIPT") =>
        LET edit == CHOOSE i \in 1..Len(call.editedSections) :
                        call.editedSections[i][1] = "TRANSCRIPT"
            newContent == call.editedSections[edit][2]
            before == getSection(call.content, "TRANSCRIPT").content
            after == getSection(call.result.value, "TRANSCRIPT").content
            wrapped ==
                \E n \in 0..(Len(before) - 8) :
                    before = Collapsed(slice(before, 5, 5 + n))
        IN /\ wrapped => after = trim(Collapsed(newContent))
           /\ ~wrapped => after = trim(Heading("## Transcript", newContent))

\* C20: updateNoteContent leaves every section that carries the flag
\* immutable (TRANSCRIPT, AUDIO) with the body it had.
C20_ImmutableSectionsKept ==
    (call.fn = "updateNoteContent" /\ ~call.result.threw) =>
        LET before == parseSections(call.content).sections
        IN \A i \in 1..Len(before) :
               (\E f \in 1..Len(before[i].flags) :
                    before[i].flags[f] = "immutable")
               => getSection(call.result.value, before[i].name).content
                      = before[i].content

\* C16: GET /api/audio serves a file only when the relative path begins
\* with 'journal/audio/', has no '..' segment, is not absolute and resolves
\* to a place inside the vault directory; every other request is rejected
\* (400 or 403) and no file is looked at for it.
C16_NoPathEscape ==
    call.fn = "GET /api/audio" =>
        LET relativePath == join(call.pathSegments, "/")
            segments == split(relativePath)
            resolved == normalize(split(vaultPath) \o segments, <<>>)
            vault == normalize(split(vaultPath), <<>>)
            allowed ==
                /\ startsWith(relativePath, <<"journal", "/", "audio", "/">>)
                /\ \A i \in 1..Len(segments) : segments[i] # <<".", ".">>
                /\ ~startsWith(relativePath, <<"/">>)
                /\ startsWith(resolved, vault)
        IN /\ call.status = 200 => allowed
           /\ ~allowed => call.status \in {400, 403} /\ call.access = <<>>
           /\ call.access # <<>> =>
                  startsWith(split(call.access), <<<<>>>> \o vault)

\* A path under journal/audio/ that holds a '..' segment was rejected.
C16_Witness ==
    /\ call.fn = "GET /api/audio"
    /\ call.status = 400
    /\ startsWith(join(call.pathSegments, "/"),
                  <<"journal", "/", "audio", "/", ".", ".">>)
    /\ call.found = "file"

\* C18: audio whose measured duration is at most the chunk duration C is
\* transcribed in one call on the whole file; audio whose measured duration
\* exceeds C is transcribed as at least two chunks, the first a full window
\* and the last a shorter tail.
C18_ChunkingBoundary ==
    call.fn = "transcribing" =>
        LET files == call.result.value
            length(chunk) == chunk.endTime - chunk.startTime
        IN /\ call.audioDuration <= call.chunkDuration =>
                  /\ ~call.result.threw
                  /\ files = <<AudioChunk("wav", 0, 0, call.totalDuration)>>
           /\ call.audioDuration > call.chunkDuration =>
                  /\ ~call.result.threw
                  /\ Len(files) >= 2
                  /\ \A i \in 1..Len(files) : files[i].path = "chunk"
                  /\ length(files[1]) = call.chunkDuration
                  /\ length(files[Len(files)]) < call.chunkDuration

\* C15: whatever the interleaving of a reader with the writers of a note
\* (two writers on the same path included), what the reader gets is a
\* complete content, written whole by one writer: never a file that is
\* written in part or by two.
C15_AtomicReplace ==
    disk.read[1] = "file" =>
        /\ Len(disk.read[2]) = FileChunks
        /\ \A i \in 1..FileChunks : disk.read[2][i] = disk.read[2][1]

\* C17: when writeNote or a section edit has succeeded, the noteMtime it
\* records is the modification time of the note file; hasExternalEdits
\* answers true exactly when the modification time of the file is greater
\* than the entry's noteMtime, and so only after another program has
\* modified the note.
C17_DriftDetection ==
    [][/\ \A w \in Writers : Stat(w) => disk'.noteMtime = Mtime(disk')
       /\ (CheckExternalEdits /\ disk.check[1] = "stat") =>
              /\ disk'.hasEdits <=> Mtime(disk) > disk.check[2]
              /\ disk'.hasEdits => disk.external]_vars

C22_RepeatedWordDetected ==
    (/\ call.fn = "detectHallucination"
     /\ call.text = <<"h", "e", "l", "l", "o", " ", "h", "e", "l", "l",
                      "o", " ", "h", "e", "l", "l", "o", " ">>)
        => /\ call.result.isHallucination
           /\ call.result.reason \in {"Phrase repeated", "Word repeated"}

\* C23: when a chunk trips the detector and its conservative retry returns
\* text, the transcript is the merged primary text, the divider line, the
\* note with the 1-based indices of the flagged chunks, and an alternative
\* block that holds the alternative text of every such chunk.
C23_AlternativeShown ==
    call.fn = "transcribeChunked" =>
    LET results == call.chunkResults
        Retried(i) == /\ results[i].hadHallucination
                      /\ ~call.chunks[i].retry.threw
                      /\ call.chunks[i].retry.value # <<>>
        flagged == {i \in 1..Len(results) : results[i].hadHallucination}
        RECURSIVE Indices(_)
        Indices(i) ==
            IF i > Len(results) THEN <<>>
            ELSE (IF i \in flagged THEN <<<<ToString(i)>>>> ELSE <<>>)
                     \o Indices(i + 1)
        head == mergeTranscripts([i \in 1..Len(results) |-> results[i].text],
                                 overlapSeconds)
                    \o <<"\n", "\n", "---", "\n",
                         "[TRANSCRIPTION NOTE: Potential issues detected in ",
                         "chunk(s) ">>
                    \o join(Indices(1), ", ")
                    \o <<". Review carefully.]", "\n", "\n",
                         "[ALTERNATIVE TRANSCRIPTION:]", "\n">>
        block == slice(call.result, Len(head), Len(call.result))
        Holds(str) == \E k \in 0..(Len(block) - Len(str)) :
                          slice(block, k, k + Len(str)) = str
    IN (\E i \in 1..Len(results) : Retried(i))
           => /\ startsWith(call.result, head)
              /\ \A i \in 1..Len(results) :
                     Retried(i) => Holds(results[i].alternativeText)

\* The awaits with which the long-running calls of a run begin: the
\* normalization, the transcription, the LLM call and the note write.
CallStarts ==
    {"getAudioDuration", "fs.access", "transcribeChunked", "generateJournal",
     "writeNote"}

\* C24: the step that starts a long-running call of a run writes the
\* current time to heartbeat_at, and so, when no call takes as long as 5
\* minutes, a tick does not find an entry with a run in progress among the
\* stuck entries.
C24_HeartbeatRefresh ==
    [][/\ \A r \in BagToSet(runs') :
             (r.pc \in CallStarts /\ CopiesIn(r, runs') > CopiesIn(r, runs))
                 => entries'[r.entry].heartbeatAt = toISOString(now)
       /\ (Tick \/ StartRunner)
             => \A id \in Ids :
                    RunsOf(id) # {}
                        => id \notin getStuckEntries(entries, now,
                                                     StaleMinutes)]_vars

C26_FifoBetweenEntries ==
    [][\A id \in Ids :
           /\ (/\ \E r \in BagToSet(runs') :
                      /\ r.entry = id
                      /\ CopiesIn(r, runs') > CopiesIn(r, runs)
               /\ Tick \/ StartRunner)
                  => LET es1 == ResetStuck(entries,
                                           getStuckEntries(entries, now,
                                                           StaleMinutes))
                     IN /\ es1[id].stage = "queued"
                        /\ \A other \in Ids :
                               es1[other].stage = "queued" => id <= other
           /\ (entries[id].stage # "normalizing"
                   /\ entries'[id].stage = "normalizing")
                  => /\ Tick \/ StartRunner
                     /\ \A other \in Ids :
                            entries[other].stage = "queued"
                                => id <= other]_vars

\* The entry created first is being normalized while one created after it
\* waits in the queue.
C26_Witness ==
    \E id \in Ids, other \in Ids :
        /\ id < other
        /\ entries[id].stage = "normalizing"
        /\ RunsOf(id) # {}
        /\ entries[other].stage = "queued"

\* C27: the step that parks an entry at awaiting_review or awaiting_prompts
\* clears locked_by and leaves no execution more than there was; an entry
\* in an awaiting stage is changed by no step but a PATCH, and it leaves
\* the stage only by a PATCH that takes the lease at the current time.
C27_AwaitingNotWorkerDriven ==
    [][\A id \in Ids :
           LET awaiting == {"awaiting_review", "awaiting_prompts"}
           IN /\ (entries[id].stage \notin awaiting
                      /\ entries'[id].stage \in awaiting)
                     => /\ entries'[id].lockedBy = NoRunner
                        /\ BagCardinality(runs') <= BagCardinality(runs)
              /\ (entries[id].stage \in awaiting
                      /\ entries'[id] # entries[id])
                     => /\ Patch({NULL}, {<<>>}, FALSE) \/ PatchDone(FALSE)
                        /\ entries'[id].stage # entries[id].stage
                               => /\ entries'[id].lockedAt
                                         = toISOString(now)
                                  /\ entries'[id].heartbeatAt
                                         = toISOString(now)]_vars

\* C28: a step in which a stage body throws stores the diagnostic in
\* error_message.  Unless the entry was cancel_requested, that step sets
\* the stage to failed and clears locked_by, the diagnostic is that of the
\* operation which the run awaited, and the run is not continued.
C28_FailureHandling ==
    [][\A id \in Ids :
           LET thrown(pc) ==
                   CASE pc = "getAudioDuration" -> "ffprobe failed"
                     [] pc = "ffmpeg" -> "ffmpeg failed"
                     [] pc = "fs.access" -> "Whisper binary not found"
                     [] pc = "generateJournal" -> "Ollama request failed"
                     [] pc = "writeNote" -> "write failed"
                     [] OTHER -> "whisper.cpp failed"
           IN (/\ entries[id].stage # "cancel_requested"
               /\ entries'[id].errorMessage # entries[id].errorMessage)
                  => /\ entries'[id].stage = "failed"
                     /\ entries'[id].lockedBy = NoRunner
                     /\ \A r \in RunsOf(id) :
                            (/\ r.pc \in StageBodyAwaits
                             /\ CopiesIn(r, runs') < CopiesIn(r, runs))
                                => entries'[id].errorMessage = thrown(r.pc)
                     /\ \A q \in BagToSet(runs') :
                            q.entry = id
                                => CopiesIn(q, runs') <= CopiesIn(q, runs)]_vars

\* The LLM call of a run that a continue request started has failed: the
\* entry is failed with the diagnostic and without a lease.
C28_Witness ==
    \E id \in Ids :
        /\ entries[id].stage = "failed"
        /\ entries[id].errorMessage = "Ollama request failed"
        /\ entries[id].lockedBy = NoRunner
        /\ RunsOf(id) = {}

\* C29: the tick that resets a stuck entry leaves it queued or runs it
\* again in the stage in which it stalled; an entry that stalled in
\* generating or writing is not taken back to a stage before it.
C29_ResumeAfterRecovery ==
    [][(Tick \/ StartRunner)
       => \A id \in getStuckEntries(entries, now, StaleMinutes) :
              entries'[id].stage \in {"queued", entries[id].stage}]_vars

\* C30: the transcript that a stage works with is the one stored when the
\* stage starts: a run that begins the LLM call or the note write does so
\* with the edited transcript of the entry as it is then, or the raw one
\* when there is no edit.
C30_EditsReachStage ==
    [][\A r \in BagToSet(runs') :
           (/\ r.pc \in {"generateJournal", "writeNote"}
            /\ CopiesIn(r, runs') > CopiesIn(r, runs))
               => r.transcript = Transcript(r.fn, entries', r.entry)]_vars

\* C31 (entry date adjustable only until writing begins): the entry_date of
\* an entry that is in writing or completed does not change, and the
\* entry_date in the frontmatter of a written note is the one in the store.
C31_EntryDateUntilWriting ==
    [][\A id \in Ids :
          /\ entries[id].stage \in {"writing", "completed"}
             => entries'[id].entryDate = entries[id].entryDate
          /\ id \in DOMAIN notes'
             => notes'[id].entryDate = entries'[id].entryDate]_vars

\* C32 (child handles are exposed for cancel): while an execution waits for
\* a tool process of its entry (ffmpeg of the normalization, whisper of the
\* single-shot transcription, or the ffmpeg and whisper processes of the
\* chunked transcription) and no cancel has been accepted for the entry,
\* the child-process table holds a handle under the id of the entry.
C32_ChildHandlesExposed ==
    \A r \in BagToSet(runs) :
        (/\ r.pc \in {"ffmpeg", "whisper", "transcribeChunked"}
         /\ entries[r.entry].stage \in {"normalizing", "transcribing"})
        => r.entry \in DOMAIN childProcesses

\* C33 (completed entries have a note): in every reachable state an entry
\* whose stage is completed has note_relpath and note_mtime set, and the
\* file of the note is in the vault.
C33_CompletedHasNote ==
    \A id \in Ids :
        entries[id].stage = "completed"
        => /\ entries[id].noteRelpath # NULL
           /\ entries[id].noteMtime # NullNum
           /\ id \in DOMAIN notes

\* C33's case: an entry is completed after audio clean-up, and stuck-job
\* recovery has not touched it.
C33_Witness ==
    \E id \in Ids :
        /\ entries[id].stage = "completed"
        /\ entries[id].noteMtime = mtimeMs
        /\ ~keepAudio
        /\ id \notin wasReset

\* C34 (section edits are all-or-nothing): when the note that
\* updateNoteContent reads does not parse strictly, or a replacement of a
\* requested section fails, the call has thrown once it is over, the text
\* of the note file is the one from before the call, and so are the file's
\* and the entry's modification time; when the file's text did change,
\* every requested section that the note has was replaced.
C34_SectionEditsAllOrNothing ==
    (call.fn = "updateNoteContent" /\ call.pc = "done")
    => /\ (\/ ~StrictParses(call.original)
           \/ EditSections(call.original, call.editedSections).threw)
          => /\ call.status = 500
             /\ call.file = call.original
             /\ call.mtime = 1
             /\ call.noteMtime = 1
       /\ call.file # call.original
          => call.file = EditSections(call.original,
                                      call.editedSections).value

\* C34's case: the call is over for a note that parses strictly, with two
\* sections requested of which the first was replaced in memory and the
\* second could not be.
C34_Witness ==
    /\ call.fn = "updateNoteContent"
    /\ call.pc = "done"
    /\ call.error = "text"
    /\ StrictParses(call.original)
    /\ Len(call.editedSections) = 2
    /\ ~replaceSection(call.original, call.editedSections[1][1],
                       <<>>).threw
    /\ getSection(call.original, call.editedSections[1][1]).name # NULL

\* C35 (duplicate sections are an error): for a text in which a section
\* name has two complete pairs of markers, a START followed by an END and
\* after them a START followed by an END, parseSections collects an error
\* of type duplicate_section and the strict parse fails.
C35_DuplicateSectionIsError ==
    call.fn = "parseSections"
    => LET md == call.markdown
           Is(i, k, name) == md[i].k = k /\ md[i].name = name
           TwoPairs(name) ==
               \E s1, e1, s2, e2 \in 1..Len(md) :
                   /\ s1 < e1 /\ e1 < s2 /\ s2 < e2
                   /\ Is(s1, "start", name) /\ Is(e1, "end", name)
                   /\ Is(s2, "start", name) /\ Is(e2, "end", name)
       IN \A name \in {"JOURNAL", "TRANSCRIPT"} :
              TwoPairs(name)
              => /\ \E i \in 1..Len(call.result.errors) :
                        /\ call.result.errors[i].type = "duplicate_section"
                        /\ call.result.errors[i].section = name
                 /\ ~call.strict

\* C36 (split segments): when splitAudio returns for a total duration T, a
\* window W and an overlap O with 0 <= O < W < T, the segments are numbered
\* from 0 in order, segment i covers [i*(W-O), min(i*(W-O)+W, T)], the
\* segments cover [0, T] without a gap, two consecutive segments overlap by
\* O, only the last segment is shorter than W, and no segment lies inside
\* the one before it.
C36_SplitSegments ==
    (/\ call.fn = "splitAudio"
     /\ call.pc = "returned"
     /\ call.overlap < call.chunkDuration
     /\ call.chunkDuration < call.totalDuration)
    => LET T == call.totalDuration
           W == call.chunkDuration
           O == call.overlap
           seg == call.chunks
           n == Len(seg)
           Min(a, b) == IF a < b THEN a ELSE b
       IN /\ n >= 1
          /\ \A i \in 0..(n - 1) :
                /\ seg[i + 1].index = i
                /\ seg[i + 1].startTime = i * (W - O)
                /\ seg[i + 1].endTime = Min(i * (W - O) + W, T)
          /\ seg[1].startTime = 0
          /\ seg[n].endTime = T
          /\ \A i \in 1..(n - 1) :
                /\ seg[i + 1].startTime <= seg[i].endTime
                /\ seg[i].endTime - seg[i + 1].startTime = O
                /\ seg[i].endTime - seg[i].startTime = W
                /\ seg[i + 1].endTime > seg[i].endTime

\* C37 (split terminates): every call of splitAudio, whatever the total
\* duration, the window and the overlap (an overlap of the window or more
\* included), comes to its end: it returns, with at most 100 segments, or
\* it throws, which it does when the count of segments has passed 100.
C37_SplitTerminates ==
    /\ [](call.fn = "splitAudio"
          => /\ call.pc = "returned" => Len(call.chunks) <= MaxChunkIndex
             /\ call.pc = "threw" => call.index = MaxChunkIndex + 1)
    /\ (call.fn = "splitAudio")
          ~> (call.fn = "splitAudio" /\ call.pc \in {"returned", "threw"})

\* C37's case: the call has thrown for an overlap larger than the window,
\* with which startTime goes backwards.
C37_Witness ==
    /\ call.fn = "splitAudio"
    /\ call.pc = "threw"
    /\ call.overlap > call.chunkDuration
    /\ call.startTime < 0

\* C38 (upload is pending-only under concurrency): original_audio_relpath
\* changes only in a step from a state in which the stage of the entry is
\* pending, and an upload that is not answered 200 changes no field of the
\* entry.
C38_UploadPendingOnly ==
    [][\A id \in Ids :
          /\ entries'[id].originalAudioRelpath
                # entries[id].originalAudioRelpath
             => entries[id].stage = "pending"
          /\ (/\ last'.op = "upload"
              /\ last'.id = id
              /\ last'.status # 200)
             => entries'[id] = entries[id]]_vars

\* C39 (no head-of-line blocking): whenever the oldest queued entry holds
\* the lease of another runner and another entry is queued, that other
\* entry eventually leaves the queue.
C39_NoHeadOfLineBlocking ==
    \A a \in 1..MaxQueueEntries, b \in 1..MaxQueueEntries :
        (/\ a \in DOMAIN entries
         /\ b \in DOMAIN entries
         /\ a # b
         /\ entries[b].stage = "queued"
         /\ getQueuedEntries(entries) # {}
         /\ a = Oldest(getQueuedEntries(entries))
         /\ entries[a].lockedBy # NoRunner
         /\ entries[a].lockedBy # runnerId)
        ~> (b \in DOMAIN entries /\ entries[b].stage # "queued")

\* C40 (merge drops only matched overlap): the merged text of two chunks is
\* the first chunk whole followed by the words of the second chunk without
\* some first words; words are removed only where at least 2 are, and there
\* is an alignment of the removed words with the tail of the first chunk
\* in which every removed word equals, after normalization, the word it is
\* aligned with.
C40_MergeDropsOnlyMatched ==
    call.fn = "mergeTranscripts" =>
        LET prevWords == splitWords(call.transcripts[1])
            currentWords == splitWords(call.transcripts[2])
            words == splitWords(call.result)
            wordsInOverlap == (overlapSeconds * 5 + 1) \div 2
            removed == Len(prevWords) + Len(currentWords) - Len(words)
            tail == IF Len(prevWords) < wordsInOverlap * 2
                    THEN Len(prevWords) ELSE wordsInOverlap * 2
        IN /\ removed \in 0..Len(currentWords)
           /\ slice(words, 0, Len(prevWords)) = prevWords
           /\ slice(words, Len(prevWords), Len(words))
                 = slice(currentWords, removed, Len(currentWords))
           /\ removed # 1
           /\ \E at \in (Len(prevWords) - tail)..Len(prevWords) :
                  \A j \in 0..(removed - 1) :
                      /\ at + j < Len(prevWords)
                      /\ normalizeWord(currentWords[j + 1])
                            = normalizeWord(prevWords[at + j + 1])

====
